---- MODULE Spec2Model ----
(***************************************************************************)
(* Model of the wallet-standard discovery protocol and of the app-side     *)
(* wallet collection service (getWallets: register / get / on), together   *)
(* with the wallet-side registerWallet handshake, of the UI registry       *)
(* (the UiWallet cache and the handle registry), of getWalletFeature, of   *)
(* identifierArraysAreDifferent and of ReadonlyWalletAccount.              *)
(*                                                                         *)
(* Objects with identity (the API object, the arrays returned by get())    *)
(* are modelled as indices into allocation-ordered sequences; 0 stands     *)
(* for `undefined`.  The functions returned by register() and on() are     *)
(* modelled by what they close over.                                       *)
(***************************************************************************)
EXTENDS Integers, Sequences, FiniteSets, TLC

\* ------------------------------------------------------------------ bounds
MaxRegs == 2        \* functions returned by register() the app holds
MaxOn == 2          \* subscriptions alive at one time
MaxArrays == 2      \* arrays allocated by get()
MaxWalletLoads == 2 \* registerWallet / DEPRECATED_registerWallet calls
MaxIntruders == 1   \* third-party listeners on the two window events
MaxChanges == 1     \* changes wallets make to their own fields
MaxHandleRegs == 2  \* direct registerWalletHandle calls
MaxIdLen == 3       \* length of the arrays handed to identifierArraysAreDifferent
MaxReads == 2       \* reads of the array getters of a ReadonlyWalletAccount
MaxWrites == 2      \* writes by outside code to arrays it holds

\* ------------------------------------------------------------ value sets
Wallet == {"A", "B"}
Listener == {"n1", "t1"}
EventNames == {"register", "unregister"}
EventTypes == {"wallet-standard:register-wallet", "wallet-standard:app-ready"}
StopMethods == {"preventDefault", "stopImmediatePropagation", "stopPropagation"}

\* A listener supplied by the app either returns normally or throws.
Throws(l) == l = "t1"

\* A listener may also call back into the service while it is being notified:
\* this one registers the wallets it is handed, register(...batch).
Reentrant == {"r1"}
Reenters(l) == l \in Reentrant

\* Other listeners that call back in.  q1 wraps wallets: whatever it is handed,
\* it calls register(B).  x1 calls the function on(event, n1) returned, for
\* the event it is notified of.  s1 calls on(event, n1) for that event.
Wrapping == {"q1"}
Unsubscribing == {"x1"}
Subscribing == {"s1"}

Range(s) == {s[i] : i \in 1..Len(s)}

\* Argument lists of register(...): up to one argument per wallet, repeats allowed.
ArgLists == UNION {[1..n -> Wallet] : n \in 0..Cardinality(Wallet)}

VARIABLES
    \* --- environment
    hasWindow,             \* typeof window !== 'undefined'
    dispatchThrows,        \* window.dispatchEvent throws (hostile window)
    addThrows,             \* window.addEventListener throws (hostile window)
    registerWalletListeners, \* number of 'wallet-standard:register-wallet' listeners on window
    appReadyListeners,     \* wallets whose 'wallet-standard:app-ready' listener is on window
    navigatorWallets,      \* window.navigator.wallets
    intruders,             \* third-party window listeners: [type, method, pos], attached
                           \* after pos listeners of this library, calling event.method()
    \* --- module state of the app side
    wallets,               \* the singleton API object (0 = undefined)
    apis,                  \* API objects allocated so far: frozen flag of each
    registeredWalletsSet,  \* insertion-ordered Set<Wallet>
    cachedWalletsArray,    \* array object (0 = undefined)
    arrays,                \* arrays allocated by get(): [elems, frozen]
    listeners,             \* event name -> subscribed listeners, in order
    \* --- closures handed to the app
    unregisters,           \* functions returned by register() that the app holds
    offs,                  \* functions returned by on() that the app holds
    hasCalled,             \* functions returned by register() of which the app
                           \* has noted that it called them
    \* --- observation of the most recent call
    op,                    \* [name, args, id]
    preSet,                \* registeredWalletsSet when the call started
    preListeners,          \* listeners when the call started
    fired,                 \* listener invocations made by the call, in order
    firedGets,             \* the registered wallets at the moment of each of them
    escaped,               \* the call ended by throwing to its caller
    ret,                   \* object returned by the call (0 = none)
    retFn,                 \* function returned by the call
    lastGet,               \* array returned by get() since the last (un)registration
    returnedApis,          \* API objects returned by (DEPRECATED_)getWallets so far
    appReadyDispatched,    \* number of app-ready events dispatched on window
    loads,                 \* wallet-side calls made so far
    legacyReturned,        \* a DEPRECATED_getWallets() call has returned in a page
                           \* whose navigator.wallets held an array
    steps                  \* what the call did to the window, in order: the
                           \* window methods it called and the legacy
                           \* callbacks its push ran

env == <<hasWindow, dispatchThrows, addThrows>>
win == <<registerWalletListeners, appReadyListeners, navigatorWallets>>
third == <<intruders>>

\* The UI registry.  UiWallet objects and the frozen arrays they reference
\* live in allocation-ordered heaps; a reference is an index, 0 is undefined.
VARIABLES
    walletData,                \* the fields of each Wallet object, owned by the wallet
    walletsToUiWallets,        \* WeakMap Wallet -> UiWallet reference
    uiWallets,                 \* heap of UiWallet objects
    uiArrays,                  \* heap of arrays: [elems, frozen]
    uiWalletAccounts,          \* UiWalletAccount objects the per-account projector created
    uiWalletHandlesToWallets,  \* WeakMap UiWalletHandle -> Wallet, as a set of entries
    changes,                   \* number of changes wallets made
    handleRegs,                \* number of direct registerWalletHandle calls
    uiOp,                      \* the last registry call and what held before it
    uiRet,                     \* what the last registry call returned or threw
    seen,                      \* per wallet, its fields at the last projection of it
                               \* and the UiWallet that call returned
    returnedUi,                \* [ref, wallet] for every UiWallet ever returned
    everRegistered             \* [handle, wallet]: the last registerWalletHandle per handle

ui == <<walletData, walletsToUiWallets, uiWallets, uiArrays, uiWalletAccounts,
        uiWalletHandlesToWallets, changes, handleRegs, uiOp, uiRet, seen, returnedUi,
        everRegistered>>
\* Calls of the library's pure functions.
VARIABLES
    compared,                  \* [a, b, result]: the arguments of an
                               \* identifierArraysAreDifferent call and what it returned
    accountHeap,               \* the arrays a ReadonlyWalletAccount and its callers
                               \* work with: a reference is an index, 0 is undefined
    walletAccount              \* a ReadonlyWalletAccount, the account object its
                               \* constructor is given and the references handed out

lib == <<compared, accountHeap, walletAccount>>
app == <<wallets, apis, registeredWalletsSet, cachedWalletsArray, arrays, listeners>>
closures == <<unregisters, offs, hasCalled>>
obs == <<op, preSet, preListeners, fired, firedGets, escaped, ret, retFn, lastGet, returnedApis, appReadyDispatched,
        loads, legacyReturned, steps>>
vars == <<env, win, third, app, closures, obs, ui, lib>>

\* --------------------------------------------------------- Set<Wallet>
Has(set, w) == w \in Range(set)
SetAdd(set, w) == IF Has(set, w) THEN set ELSE Append(set, w)
SetDelete(set, w) == SelectSeq(set, LAMBDA x : x # w)

\* The part of the module state a registration touches, threaded through
\* the helpers below: [set, cache, listeners, fired, escaped, steps, gets].
Cur == [set |-> registeredWalletsSet, cache |-> cachedWalletsArray, listeners |-> listeners,
        fired |-> <<>>, escaped |-> FALSE, steps |-> <<>>, gets |-> <<>>]

\* The call does one more thing to the window.
Step(s, name, arg) == [s EXCEPT !.steps = Append(@, [step |-> name, arg |-> arg])]

addRegisteredWallet_keepCache(s, wallet) ==
    [s EXCEPT !.set = SetAdd(@, wallet)]

addRegisteredWallet(s, wallet) ==
    [s EXCEPT !.cache = 0, !.set = SetAdd(@, wallet)]

removeRegisteredWallet_keepSet(s, wallet) ==
    [s EXCEPT !.cache = 0]

removeRegisteredWallet(s, wallet) ==
    [s EXCEPT !.cache = 0, !.set = SetDelete(@, wallet)]

\* guard(callback): TRUE iff the exception of a throwing callback leaves guard.
guard_rethrow(callbackThrows) == callbackThrows

guard(callbackThrows) == FALSE

RECURSIVE ForEachAdd(_, _)
ForEachAdd(s, ws) ==
    IF ws = <<>> THEN s ELSE ForEachAdd(addRegisteredWallet(s, Head(ws)), Tail(ws))

RECURSIVE ForEachRemove(_, _)
ForEachRemove(s, ws) ==
    IF ws = <<>> THEN s ELSE ForEachRemove(removeRegisteredWallet(s, Head(ws)), Tail(ws))

\* on(event, listener): listeners[event].push(listener)
on(ls, event, listener) == [ls EXCEPT ![event] = Append(@, listener)]

off_allEvents(ls, event, listener) ==
    [e \in EventNames |-> SelectSeq(ls[e], LAMBDA existingListener : listener # existingListener)]

off_firstOnly(ls, event, listener) ==
    LET at == {i \in 1..Len(ls[event]) : ls[event][i] = listener}
        first == CHOOSE i \in at : \A j \in at : i <= j
    IN IF at = {} THEN ls
       ELSE [ls EXCEPT ![event] = SubSeq(@, 1, first - 1) \o SubSeq(@, first + 1, Len(@))]

\* the function returned by on(): filter the listener out of listeners[event]
off(ls, event, listener) ==
    [ls EXCEPT ![event] = SelectSeq(@, LAMBDA existingListener : listener # existingListener)]

visits_ifSubscribed(s, event, listener) == listener \in Range(s.listeners[event])

\* forEach visits every element the array it was called on had at that
\* moment: off() assigns a new array to listeners[event] and leaves that one
\* as it is, and elements on() pushes during the forEach are not visited.
visits(s, event, listener) == TRUE

\* listeners[event]?.forEach((listener) => guard(() => listener(...batch)))
\* over the array ls.  An exception that leaves guard ends the forEach.
RECURSIVE ForEachListener(_, _, _, _), register(_, _)
ForEachListener(s, ls, event, batch) ==
    IF ls = <<>> \/ s.escaped THEN s
    ELSE IF ~visits(s, event, Head(ls)) THEN ForEachListener(s, Tail(ls), event, batch)
    ELSE LET invoked == [s EXCEPT !.fired = Append(@, [ev |-> event, l |-> Head(ls), batch |-> batch]),
                                  !.gets = Append(@, s.set)]
             done == IF Reenters(Head(ls)) THEN register(invoked, batch).s
                     ELSE IF Head(ls) \in Wrapping THEN register(invoked, <<"B">>).s
                     ELSE IF Head(ls) \in Unsubscribing
                          THEN [invoked EXCEPT !.listeners = off(@, event, "n1")]
                     ELSE IF Head(ls) \in Subscribing
                          THEN [invoked EXCEPT !.listeners = on(@, event, "n1")]
                     ELSE invoked
         IN ForEachListener([done EXCEPT !.escaped = guard(Throws(Head(ls)))],
                            Tail(ls), event, batch)

notify_perWallet(s, event, batch) ==
    LET RECURSIVE Each(_, _)
        Each(t, ws) == IF ws = <<>> THEN t
                       ELSE Each(ForEachListener(t, t.listeners[event], event, <<Head(ws)>>), Tail(ws))
    IN Each(s, batch)

notify_reversed(s, event, batch) ==
    ForEachListener(s, [i \in 1..Len(s.listeners[event]) |->
                           s.listeners[event][Len(s.listeners[event]) + 1 - i]], event, batch)

notify(s, event, batch) == ForEachListener(s, s.listeners[event], event, batch)

filterNew_none(set, args) == args

filterNew(set, args) == SelectSeq(args, LAMBDA w : ~Has(set, w))

capturedBatch_args(newWallets, args) == args

\* The wallets the returned unregister function closes over.
capturedBatch(newWallets, args) == newWallets

\* register(...wallets): result [s, closure, returned]; returned is FALSE when
\* an exception left the call before its return statement.
register(s, args) ==
    LET newWallets == filterNew(s.set, args)
    IN IF Len(newWallets) = 0
       THEN [s |-> s, returned |-> TRUE, closure |-> [kind |-> "noop", newWallets |-> <<>>]]
       ELSE LET s2 == notify(ForEachAdd(s, newWallets), "register", newWallets)
            IN [s |-> s2, returned |-> ~s2.escaped,
                closure |-> [kind |-> "unregister",
                             newWallets |-> capturedBatch(newWallets, args)]]

\* Calling a function returned by register(): () => {} or unregister().
unregister(s, c) ==
    IF c.kind = "noop" THEN s
    ELSE notify(ForEachRemove(s, c.newWallets), "unregister", c.newWallets)

\* ------------------------------------------------ get()
freeze_skip(elems) == [elems |-> elems, frozen |-> FALSE]

freeze(elems) == [elems |-> elems, frozen |-> TRUE]

cacheHit_never(cache) == FALSE

cacheHit(cache) == cache # 0

\* get(): result [cache, arrays, ret]
get(cache, set, arrs) ==
    IF cacheHit(cache) THEN [cache |-> cache, arrays |-> arrs, ret |-> cache]
    ELSE LET a == Append(arrs, freeze(set))
         IN [cache |-> Len(a), arrays |-> a, ret |-> Len(a)]

\* ------------------------------------------------ discovery protocol
\* The callback a wallet hands to the app (registerWallet, and the legacy
\* callback of DEPRECATED_registerWallet): try { api.register(wallet) } catch {}.
\* The unregister function register returns is dropped.
callback(s, wallet) == [register(s, <<wallet>>).s EXCEPT !.escaped = FALSE]

\* window.dispatchEvent(new RegisterWalletEvent(callback)): each listener
\* attached by getWallets runs guard(() => callback(api)).
\* event.preventDefault(), event.stopImmediatePropagation() and
\* event.stopPropagation() of RegisterWalletEvent and AppReadyEvent: TRUE iff
\* the call throws.
methodThrows(type, method) == TRUE

\* Does a listener that calls event.method() keep the event from the
\* listeners attached after it?  Only a stopImmediatePropagation that runs.
Suppresses(type, method) == ~methodThrows(type, method) /\ method = "stopImmediatePropagation"

\* How many of the n listeners this library attached for the event type, in
\* attachment order, the event reaches.
Reached(type, n) ==
    LET cut == {i.pos : i \in {j \in intruders : j.type = type /\ j.pos < n
                                                   /\ Suppresses(type, j.method)}}
    IN IF cut = {} THEN n ELSE CHOOSE c \in cut : \A d \in cut : c <= d

\* try { ... } catch (error) { console.error(...) }: does an exception raised
\* in the block leave the statement?
tryCatch_rethrow(threw) == threw

tryCatch(threw) == FALSE

\* The callback registerWallet builds, handed an api whose register throws.
callbackThrowing(s, wallet) ==
    [Step(s, "api.register throws", wallet) EXCEPT !.escaped = tryCatch(TRUE)]

\* Another app implementation on the page: its register-wallet listener hands
\* event.detail an api whose register throws.  An exception that leaves a
\* listener is reported by the window, dispatchEvent does not rethrow it.
ForeignApps == {i \in intruders : i.type = "wallet-standard:register-wallet"
                                  /\ i.method = "throwingApi"}

DispatchToForeignApps(s, wallet) ==
    IF ForeignApps = {} THEN s ELSE [callbackThrowing(s, wallet) EXCEPT !.escaped = FALSE]

DispatchRegisterWallet_dropped(s, n, wallet) == s

RECURSIVE DispatchRegisterWallet(_, _, _)
DispatchRegisterWallet(s, n, wallet) ==
    IF n = 0 THEN s ELSE DispatchRegisterWallet(callback(s, wallet), n - 1, wallet)

\* Delivery of one app-ready event: each wallet's listener runs callback(api).
RECURSIVE DispatchAppReady(_, _)
DispatchAppReady(s, ws) ==
    IF ws = <<>> THEN s ELSE DispatchAppReady(callback(s, Head(ws)), Tail(ws))

\* The identifier the AppReadyEvent constructor passes to super() is neither
\* declared nor imported in its module: evaluating it raises a ReferenceError.
APP_READY_EVENT == "ReferenceError"

\* new AppReadyEvent(api): TRUE iff the constructor returns an event.
AppReadyEvent == APP_READY_EVENT # "ReferenceError"

alreadyCreated_never(w) == FALSE

\* if (wallets) return wallets;
alreadyCreated(w) == w # 0

windowUndefined_never == FALSE

\* typeof window === 'undefined'
windowUndefined == ~hasWindow

\* The app-side state getWallets works on.
AppCur == [wallets |-> wallets, apis |-> apis, rwl |-> registerWalletListeners,
           ard |-> appReadyDispatched, s |-> Cur]

\* getWallets(): the state after the call; the call returns .wallets
getWallets(g) ==
    IF alreadyCreated(g.wallets) THEN g
    ELSE LET a == Append(g.apis, TRUE)   \* Object.freeze({ register, get, on })
             g1 == [g EXCEPT !.wallets = Len(a), !.apis = a]
         IN IF windowUndefined THEN g1
            ELSE LET g2 == [(IF addThrows THEN g1 ELSE [g1 EXCEPT !.rwl = @ + 1]) EXCEPT
                                !.s = Step(@, "addEventListener", "wallet-standard:register-wallet")]
                     g3 == IF AppReadyEvent
                           THEN [g2 EXCEPT !.s = Step(@, "dispatchEvent", "wallet-standard:app-ready")]
                           ELSE g2
                 IN IF AppReadyEvent /\ ~dispatchThrows
                    THEN [g3 EXCEPT !.ard = @ + 1,
                                    !.s = DispatchAppReady(@, SubSeq(appReadyListeners, 1,
                                            Reached("wallet-standard:app-ready", Len(appReadyListeners))))]
                    ELSE g3

\* push(...callbacks): callbacks.forEach((callback) => guard(() => callback({ register })))
RECURSIVE push(_, _)
push(s, callbacks) ==
    IF callbacks = <<>> THEN s
    ELSE push(callback(Step(s, "callback", Head(callbacks)), Head(callbacks)), Tail(callbacks))

\* DEPRECATED_getWallets(): result [g, nav]
DEPRECATED_getWallets(g, nav) ==
    IF alreadyCreated(g.wallets) THEN [g |-> g, nav |-> nav]
    ELSE LET g1 == getWallets(g)
         IN IF ~hasWindow \/ nav.kind = "push" THEN [g |-> g1, nav |-> nav]
            ELSE [g |-> [g1 EXCEPT !.s = push(@, nav.pending)],
                  nav |-> [kind |-> "push", pending |-> <<>>]]

\* registerWallet(wallet): result [s, ready]
registerWallet(s, ready, wallet) ==
    LET s1 == IF hasWindow THEN Step(s, "dispatchEvent", "wallet-standard:register-wallet") ELSE s
        s2 == IF hasWindow /\ ~dispatchThrows
              THEN DispatchToForeignApps(
                       DispatchRegisterWallet(s1,
                           Reached("wallet-standard:register-wallet", registerWalletListeners), wallet),
                       wallet)
              ELSE [s1 EXCEPT !.escaped = tryCatch(TRUE)]
        s3 == IF hasWindow THEN Step(s2, "addEventListener", "wallet-standard:app-ready") ELSE s2
    IN IF s2.escaped THEN [s |-> s2, ready |-> ready]
       ELSE [s |-> IF hasWindow /\ ~addThrows THEN s3 ELSE [s3 EXCEPT !.escaped = tryCatch(TRUE)],
             ready |-> IF hasWindow /\ ~addThrows THEN Append(ready, wallet) ELSE ready]

\* DEPRECATED_registerWallet(wallet): result [s, ready, nav]
DEPRECATED_registerWallet(s, ready, nav, wallet) ==
    LET r == registerWallet(s, ready, wallet)
    IN IF ~hasWindow THEN [s |-> r.s, ready |-> r.ready, nav |-> nav]
       ELSE IF nav.kind = "push"
            THEN [s |-> push(r.s, <<wallet>>), ready |-> r.ready, nav |-> nav]
            ELSE [s |-> r.s, ready |-> r.ready,
                  nav |-> [kind |-> "array", pending |-> Append(nav.pending, wallet)]]

\* ------------------------------------------------------------ actions
\* No function returned.
\* ------------------------------------------------------------ UI registry
\* WalletAccount objects and their addresses: a1 and a3 share an address.
Acct == {"a1", "a2", "a3"}
Address == [a \in Acct |-> IF a = "a2" THEN "y" ELSE "x"]

\* Values a wallet gives its fields.  features is the list of the keys of
\* wallet.features in insertion order, which is what Object.keys returns.
AccountLists == {<<>>, <<"a1">>, <<"a1", "a2">>, <<"a2", "a1">>, <<"a1", "a1">>, <<"a3", "a1">>}
ChainLists == {<<"c1">>, <<"c1", "c2">>, <<"c2", "c1">>, <<"c1", "c1">>}
FeatureLists == {<<"f1">>, <<"f1", "f2">>, <<"f2", "f1">>}
InfoValues == [icon |-> {"i1", "i2"}, name |-> {"n1", "n2"}, version |-> {"1.0.0", "1.1.0"}]
WalletData0 == [accounts |-> <<"a1", "a2">>, chains |-> <<"c1">>, features |-> <<"f1">>,
                icon |-> "i1", name |-> "n1", version |-> "1.0.0"]
NoData == [accounts |-> <<>>, chains |-> <<>>, features |-> <<>>,
           icon |-> "", name |-> "", version |-> ""]

\* Handles: a UiWallet is its heap reference; a UiWalletAccount carries the
\* address of the account it was made from.
UiWalletHandle(ref) == [kind |-> "UiWallet", n |-> ref, address |-> ""]
AccountHandles == {[kind |-> "UiWalletAccount", n |-> 1, address |-> "x"],
                   [kind |-> "UiWalletAccount", n |-> 2, address |-> "y"]}

\* compare.ts: Set-based comparison, ignoring order and duplicates.
identifierArraysAreDifferent_byLength(a, b) == Len(a) # Len(b)

identifierArraysAreDifferent_oneWay(a, b) == \E item \in Range(a) : item \notin Range(b)

identifierArraysAreDifferent(a, b) ==
    LET setA == Range(a)
        setB == Range(b)
    IN \/ Cardinality(setA) # Cardinality(setB)
       \/ \E item \in setA : item \notin setB

\* The per-account projector: one UiWalletAccount per (wallet, account)
\* pair, the same object on every call.
getOrCreateUiWalletAccountForStandardWalletAccount(w, account) ==
    [wallet |-> w, account |-> account, address |-> Address[account]]

\* accountsIterator.some(acc => !uiAccounts.includes(acc)) on an iterator
\* whose cache holds the projections of a prefix of the accounts: projects the
\* accounts past the cache one by one and stops at the first one that is
\* missing from uiAccounts.  Yields the answer, the cache afterwards and
\* the positions of wallet.accounts it handed to the projector, in order.
some(w, accounts, cache, uiAccounts) ==
    LET proj(k) == getOrCreateUiWalletAccountForStandardWalletAccount(w, accounts[k])
        missing == {k \in (Len(cache) + 1)..Len(accounts) : proj(k) \notin Range(uiAccounts)}
        stop == IF missing = {} THEN Len(accounts)
                ELSE CHOOSE k \in missing : \A j \in missing : k <= j
    IN IF \E i \in 1..Len(cache) : cache[i] \notin Range(uiAccounts)
       THEN [found |-> TRUE, cache |-> cache, calls |-> <<>>]
       ELSE [found |-> missing # {},
             cache |-> cache \o [k \in 1..(stop - Len(cache)) |-> proj(Len(cache) + k)],
             calls |-> [k \in 1..(stop - Len(cache)) |-> Len(cache) + k]]

slice_whole(accounts, start) == [k \in 1..Len(accounts) |-> k]

\* wallet.accounts.slice(start): the positions of wallet.accounts, counted
\* from 1, whose accounts the slice holds.
slice(accounts, start) == [k \in 1..(Len(accounts) - start) |-> start + k]

\* Array.from(accountsIterator): the cache, then the projections of the
\* accounts past the cache.
ArrayFrom(w, accounts, cache) ==
    LET rest == slice(accounts, Len(cache))
    IN cache \o [i \in 1..Len(rest) |->
                   getOrCreateUiWalletAccountForStandardWalletAccount(w, accounts[rest[i]])]

shouldSyncAccounts_positional(w, uiAccounts, accounts) ==
    [found |-> \/ Len(uiAccounts) # Len(accounts)
               \/ \E k \in 1..Len(accounts) :
                     uiAccounts[k] # getOrCreateUiWalletAccountForStandardWalletAccount(w, accounts[k]),
     cache |-> <<>>, calls |-> <<>>]

shouldSyncAccounts(w, uiAccounts, accounts) ==
    IF Len(uiAccounts) # Len(accounts)
    THEN [found |-> TRUE, cache |-> <<>>, calls |-> <<>>]
    ELSE some(w, accounts, <<>>, uiAccounts)

shouldSyncBasicInfo_nameOnly(uiWallet, wallet) == uiWallet.name # wallet.name

shouldSyncBasicInfo(uiWallet, wallet) ==
    \/ uiWallet.icon # wallet.icon
    \/ uiWallet.name # wallet.name
    \/ uiWallet.version # wallet.version

\* The draft `{}` of a wallet seen for the first time.
EmptyUiWallet == [accounts |-> 0, features |-> 0, chains |-> 0,
                  icon |-> "", name |-> "", version |-> "", frozen |-> FALSE]

\* A call in progress is r = [objs, arrs, uiWallet, isNewWallet, hasChanges,
\* projected, calls, threw].
\* Copy-on-write: the first change replaces the draft by a shallow copy.
markAsChanged(r) ==
    IF r.hasChanges THEN r
    ELSE [r EXCEPT !.objs = Append(@, [r.objs[r.uiWallet] EXCEPT !.frozen = FALSE]),
                   !.uiWallet = Len(r.objs) + 1,
                   !.hasChanges = TRUE]

\* uiWallet.field = value; a TypeError if the draft is a frozen object.
Assign(r, field, value) ==
    IF r.threw THEN r
    ELSE IF r.objs[r.uiWallet].frozen THEN [r EXCEPT !.threw = TRUE]
    ELSE [r EXCEPT !.objs[r.uiWallet][field] = value]

\* uiWallet.field = Object.freeze(elems)
AssignFrozenArray(r, field, elems) ==
    Assign([r EXCEPT !.arrs = Append(@, [elems |-> elems, frozen |-> TRUE])],
           field, Len(r.arrs) + 1)

Elems(arrs, ref) == IF ref = 0 THEN <<>> ELSE arrs[ref].elems

registerWalletHandle_keepFirst(handles, uiWalletHandle, wallet) ==
    IF \E e \in handles : e.handle = uiWalletHandle THEN handles
    ELSE handles \cup {[handle |-> uiWalletHandle, wallet |-> wallet]}

\* WeakMap.set: the entry of the handle is replaced.
registerWalletHandle(handles, uiWalletHandle, wallet) ==
    {e \in handles : e.handle # uiWalletHandle} \cup {[handle |-> uiWalletHandle, wallet |-> wallet]}

shouldStore_always(hasChanges) == TRUE

shouldStore_never(hasChanges) == FALSE

\* if (hasChanges) { walletsToUiWallets.set(...); registerWalletHandle(...) }
shouldStore(hasChanges) == hasChanges

freezeUiWallet_skip(obj) == obj

\* return Object.freeze(uiWallet)
freezeUiWallet(obj) == [obj EXCEPT !.frozen = TRUE]

StoredHandle_stale(r, cached) == UiWalletHandle(IF cached = 0 THEN r.uiWallet ELSE cached)

\* The handle registered at the end of a call: the draft as it is then.
StoredHandle(r, cached) == UiWalletHandle(r.uiWallet)

\* The draft at the start of a call: the cached instance, or a new `{}`.
Draft(w) ==
    [objs |-> IF walletsToUiWallets[w] = 0 THEN Append(uiWallets, EmptyUiWallet) ELSE uiWallets,
     arrs |-> uiArrays,
     uiWallet |-> IF walletsToUiWallets[w] = 0 THEN Len(uiWallets) + 1 ELSE walletsToUiWallets[w],
     isNewWallet |-> walletsToUiWallets[w] = 0,
     hasChanges |-> walletsToUiWallets[w] = 0,
     projected |-> {},
     calls |-> <<>>,
     threw |-> FALSE]

\* The elements of an array field of the draft.
DraftElems(r, field) == Elems(r.arrs, r.objs[r.uiWallet][field])

\* Synchronize accounts.
SyncAccountsWith(r, w, sync) ==
    IF sync.found
    THEN [AssignFrozenArray(markAsChanged(r), "accounts",
                            ArrayFrom(w, walletData[w].accounts, sync.cache))
            EXCEPT !.projected = Range(ArrayFrom(w, walletData[w].accounts, sync.cache)),
                   !.calls = sync.calls \o slice(walletData[w].accounts, Len(sync.cache))]
    ELSE [r EXCEPT !.projected = Range(sync.cache), !.calls = sync.calls]

SyncAccounts(r, w) ==
    SyncAccountsWith(r, w,
        IF r.isNewWallet THEN [found |-> TRUE, cache |-> <<>>, calls |-> <<>>]
        ELSE shouldSyncAccounts(w, DraftElems(r, "accounts"), walletData[w].accounts))

\* Synchronize features, and chains.
SyncIdentifiers(r, w, field) ==
    IF r.threw THEN r
    ELSE IF r.isNewWallet \/ identifierArraysAreDifferent(DraftElems(r, field), walletData[w][field])
    THEN AssignFrozenArray(markAsChanged(r), field, walletData[w][field])
    ELSE r

\* Synchronize basic wallet information.
SyncBasicInfo(r, w) ==
    IF r.threw THEN r
    ELSE IF r.isNewWallet \/ shouldSyncBasicInfo(r.objs[r.uiWallet], walletData[w])
    THEN Assign(Assign(Assign(markAsChanged(r), "icon", walletData[w].icon),
                       "name", walletData[w].name), "version", walletData[w].version)
    ELSE r

\* The end of a call: store and register the draft if it changed, freeze and
\* return it.  Yields the heaps, maps and projector cache afterwards, the
\* reference returned (0 if the call threw) and whether the maps were written.
Finish(r, w) ==
    [objs |-> IF r.threw THEN r.objs
              ELSE [r.objs EXCEPT ![r.uiWallet] = freezeUiWallet(@)],
     arrs |-> r.arrs,
     map |-> IF ~r.threw /\ shouldStore(r.hasChanges)
             THEN [walletsToUiWallets EXCEPT ![w] = r.uiWallet]
             ELSE walletsToUiWallets,
     handles |-> IF ~r.threw /\ shouldStore(r.hasChanges)
                 THEN registerWalletHandle(uiWalletHandlesToWallets,
                                           StoredHandle(r, walletsToUiWallets[w]), w)
                 ELSE uiWalletHandlesToWallets,
     accts |-> uiWalletAccounts \cup r.projected,
     calls |-> r.calls,
     ret |-> IF r.threw THEN 0 ELSE r.uiWallet,
     threw |-> r.threw,
     stored |-> ~r.threw /\ shouldStore(r.hasChanges)]

\* One call of getOrCreateUiWalletForStandardWallet(w).
getOrCreateUiWalletForStandardWallet(w) ==
    Finish(SyncBasicInfo(SyncIdentifiers(SyncIdentifiers(SyncAccounts(Draft(w), w),
                                                         w, "features"),
                                         w, "chains"),
                         w),
           w)

\* What a registry call returns or throws.
\* A feature object: the one the wallet stores under the name (clone 0), or
\* a copy of it made after the fact.
NoFeature == [wallet |-> "", name |-> "", clone |-> 0]

NoRet == [kind |-> "none", ref |-> 0, wallet |-> "", account |-> "", code |-> "",
          address |-> "", walletName |-> "", featureName |-> "",
          supportedChains |-> <<>>, supportedFeatures |-> <<>>, feature |-> NoFeature]

getWalletForHandle(handles, uiWalletHandle) ==
    LET found == {e \in handles : e.handle = uiWalletHandle}
    IN IF found = {}
       THEN [NoRet EXCEPT !.kind = "error", !.code = "WALLET_NOT_FOUND"]
       ELSE [NoRet EXCEPT !.kind = "Wallet", !.wallet = (CHOOSE e \in found : TRUE).wallet]

find_last(accounts, address) ==
    LET hits == {k \in 1..Len(accounts) : Address[accounts[k]] = address}
    IN IF hits = {} THEN 0 ELSE CHOOSE k \in hits : \A j \in hits : k >= j

\* wallet.accounts.find(({address}) => address === ...): the index of the
\* first match, 0 if there is none.
find(accounts, address) ==
    LET hits == {k \in 1..Len(accounts) : Address[accounts[k]] = address}
    IN IF hits = {} THEN 0 ELSE CHOOSE k \in hits : \A j \in hits : k <= j

getWalletAccountForUiWalletAccount(handles, uiWalletAccount) ==
    LET wallet == getWalletForHandle(handles, uiWalletAccount)
    IN IF wallet.kind = "error" THEN wallet
       ELSE LET accounts == walletData[wallet.wallet].accounts
                k == find(accounts, uiWalletAccount.address)
            IN IF k = 0
               THEN [NoRet EXCEPT !.kind = "error", !.code = "WALLET_ACCOUNT_NOT_FOUND",
                                  !.address = uiWalletAccount.address,
                                  !.walletName = walletData[wallet.wallet].name]
               ELSE [NoRet EXCEPT !.kind = "WalletAccount", !.wallet = wallet.wallet,
                                  !.account = accounts[k]]

\* Feature names a caller asks for.
FeatureName == {"f1", "f2"}

featureOf_copied(w, featureName) == [wallet |-> w, name |-> featureName, clone |-> 1]

\* wallet.features[featureName]: the object itself.
featureOf(w, featureName) == [wallet |-> w, name |-> featureName, clone |-> 0]

hasFeature_always(data, featureName) == TRUE

\* featureName in wallet.features
hasFeature(data, featureName) == featureName \in Range(data.features)

\* getWalletFeature(uiWalletHandle, featureName): resolves the wallet through
\* the handle registry (whose WalletNotFound failure propagates), fails with
\* FeatureUnimplemented when the wallet has no such feature and returns the
\* feature object otherwise.
getWalletFeature(handles, data, uiWalletHandle, featureName) ==
    LET wallet == getWalletForHandle(handles, uiWalletHandle)
    IN IF wallet.kind = "error" THEN wallet
       ELSE IF ~hasFeature(data[wallet.wallet], featureName)
       THEN [NoRet EXCEPT !.kind = "error", !.code = "FEATURE_UNIMPLEMENTED",
                          !.featureName = featureName,
                          !.supportedChains = data[wallet.wallet].chains,
                          !.supportedFeatures = data[wallet.wallet].features,
                          !.walletName = data[wallet.wallet].name]
       ELSE [NoRet EXCEPT !.kind = "feature",
                          !.feature = featureOf(wallet.wallet, featureName)]

NoHandle == [kind |-> "none", n |-> 0, address |-> ""]
NoSeen == [data |-> NoData, ref |-> 0]
NoUiOp == [name |-> "init", wallet |-> "", handle |-> NoHandle, prevSeen |-> NoSeen,
           prevCached |-> 0, prevAccounts |-> <<>>, prevProjected |-> {},
           prevReturned |-> {}, prevHandles |-> {}, stored |-> FALSE, featureName |-> "",
           calls |-> <<>>]

NoFn == [kind |-> "none", newWallets |-> <<>>]

\* The state once the modules are loaded and nothing has been called.
Loaded ==
    /\ hasWindow \in BOOLEAN
    /\ dispatchThrows \in BOOLEAN
    /\ addThrows \in BOOLEAN
    /\ ~hasWindow => (~dispatchThrows /\ ~addThrows)
    /\ registerWalletListeners = 0
    /\ appReadyListeners = <<>>
    /\ navigatorWallets = [kind |-> "undefined", pending |-> <<>>]
    /\ intruders = {}
    /\ walletData = [w \in Wallet |-> WalletData0]
    /\ walletsToUiWallets = [w \in Wallet |-> 0]
    /\ uiWallets = <<>>
    /\ uiArrays = <<>>
    /\ uiWalletAccounts = {}
    /\ uiWalletHandlesToWallets = {}
    /\ changes = 0
    /\ handleRegs = 0
    /\ uiOp = NoUiOp
    /\ uiRet = NoRet
    /\ seen = [w \in Wallet |-> NoSeen]
    /\ returnedUi = {}
    /\ everRegistered = {}
    /\ wallets = 0
    /\ apis = <<>>
    /\ registeredWalletsSet = <<>>
    /\ cachedWalletsArray = 0
    /\ arrays = <<>>
    /\ listeners = [e \in EventNames |-> <<>>]
    /\ unregisters = {}
    /\ offs = {}
    /\ hasCalled = {}
    /\ op = [name |-> "init", args |-> <<>>, id |-> 0]
    /\ preSet = <<>>
    /\ preListeners = [e \in EventNames |-> <<>>]
    /\ fired = <<>>
    /\ firedGets = <<>>
    /\ escaped = FALSE
    /\ ret = 0
    /\ retFn = NoFn
    /\ lastGet = 0
    /\ returnedApis = {}
    /\ appReadyDispatched = 0
    /\ loads = 0
    /\ legacyReturned = FALSE
    /\ steps = <<>>

\* Identifier arrays a caller can hand to identifierArraysAreDifferent.
Identifier == {"c1", "c2"}
IdArrays == UNION {[1..n -> Identifier] : n \in 0..MaxIdLen}
NoCompare == [a |-> <<>>, b |-> <<>>, called |-> FALSE, result |-> FALSE]

\* ReadonlyWalletAccount: the array-valued properties, the arrays a caller
\* can put into the account object it passes to the constructor (an empty
\* publicKey or chains is rejected), and the values outside code writes.
ArrayFields == {"publicKey", "chains", "features"}
AccountArrays == {<<>>, <<"c1">>, <<"c1", "c2">>}
NoRefs == [f \in ArrayFields |-> 0]
NoAccount ==
    [account |-> [publicKey |-> 1, chains |-> 2, features |-> 3],
     private |-> NoRefs, constructed |-> FALSE, threw |-> FALSE,
     original |-> [f \in ArrayFields |-> <<>>],
     returned |-> {}, op |-> "init", field |-> "", ret |-> 0, reads |-> 0, writes |-> 0]

\* No account object has been built.
NoAccountCall ==
    /\ accountHeap = <<<<"c1">>, <<"c1">>, <<>>>>
    /\ walletAccount = NoAccount

Init ==
    /\ Loaded
    /\ compared = NoCompare
    /\ NoAccountCall

\* The subscriptions there are.  The app subscribes up to MaxOn listeners, and
\* stops registering and unregistering once listeners that subscribe from
\* inside their notification have taken the number above that.
Subscriptions == Len(listeners["register"]) + Len(listeners["unregister"])

\* What every call records about itself.
Observe(name, args, id) ==
    /\ op' = [name |-> name, args |-> args, id |-> id]
    /\ preSet' = registeredWalletsSet
    /\ preListeners' = listeners

\* The registration state after a call, and the listener calls it made.
Commit(s) ==
    /\ registeredWalletsSet' = s.set
    /\ cachedWalletsArray' = s.cache
    /\ listeners' = s.listeners
    /\ fired' = s.fired
    /\ firedGets' = s.gets
    /\ escaped' = s.escaped
    /\ steps' = s.steps

CommitApp(g) ==
    /\ wallets' = g.wallets
    /\ apis' = g.apis
    /\ registerWalletListeners' = g.rwl
    /\ appReadyDispatched' = g.ard
    /\ Commit(g.s)
    /\ ret' = g.wallets
    /\ retFn' = NoFn
    /\ returnedApis' = returnedApis \cup {g.wallets}
    /\ lastGet' = IF g.s.set # registeredWalletsSet THEN 0 ELSE lastGet

\* The app calls getWallets().
GetWallets ==
    /\ Observe("getWallets", <<>>, wallets)
    /\ CommitApp(getWallets(AppCur))
    /\ UNCHANGED <<lib, ui, env, third, appReadyListeners, navigatorWallets, arrays, closures, loads, legacyReturned>>

\* The app calls DEPRECATED_getWallets().
DeprecatedGetWallets ==
    LET r == DEPRECATED_getWallets(AppCur, navigatorWallets)
    IN /\ Observe("DEPRECATED_getWallets", <<>>, wallets)
       /\ CommitApp(r.g)
       /\ navigatorWallets' = r.nav
       /\ legacyReturned' = (legacyReturned \/ (hasWindow /\ navigatorWallets.kind = "array"))
       /\ UNCHANGED <<lib, ui, env, third, appReadyListeners, arrays, closures, loads>>

\* A wallet calls registerWallet(wallet).
RegisterWallet(wallet) ==
    LET r == registerWallet(Cur, appReadyListeners, wallet)
    IN /\ loads < MaxWalletLoads
       /\ loads' = loads + 1
       /\ Observe("registerWallet", <<wallet>>, wallets)
       /\ Commit(r.s)
       /\ appReadyListeners' = r.ready
       /\ ret' = 0
       /\ retFn' = NoFn
       /\ lastGet' = IF r.s.set # registeredWalletsSet THEN 0 ELSE lastGet
       /\ UNCHANGED <<lib, ui, env, third, registerWalletListeners, navigatorWallets, wallets, apis, arrays,
                      closures, returnedApis, appReadyDispatched, legacyReturned>>

\* A wallet calls DEPRECATED_registerWallet(wallet).
DeprecatedRegisterWallet(wallet) ==
    LET r == DEPRECATED_registerWallet(Cur, appReadyListeners, navigatorWallets, wallet)
    IN /\ loads < MaxWalletLoads
       /\ loads' = loads + 1
       /\ Observe("DEPRECATED_registerWallet", <<wallet>>, wallets)
       /\ Commit(r.s)
       /\ appReadyListeners' = r.ready
       /\ navigatorWallets' = r.nav
       /\ ret' = 0
       /\ retFn' = NoFn
       /\ lastGet' = IF r.s.set # registeredWalletsSet THEN 0 ELSE lastGet
       /\ UNCHANGED <<lib, ui, env, third, registerWalletListeners, wallets, apis, arrays,
                      closures, returnedApis, appReadyDispatched, legacyReturned>>

\* A third-party script attaches a window listener for one of the two events
\* that calls one of the stop methods on the event it receives.
Intrude(type, method) ==
    /\ hasWindow
    /\ Cardinality(intruders) < MaxIntruders
    /\ intruders' = intruders \cup
          {[type |-> type, method |-> method,
            pos |-> IF type = "wallet-standard:register-wallet"
                    THEN registerWalletListeners ELSE Len(appReadyListeners)]}
    /\ Observe("intrude", <<type, method>>, wallets)
    /\ fired' = <<>>
    /\ firedGets' = <<>>
    /\ steps' = <<>>
    /\ escaped' = FALSE
    /\ ret' = 0
    /\ retFn' = NoFn
    /\ UNCHANGED <<lib, ui, env, win, app, closures, lastGet, returnedApis, appReadyDispatched, loads, legacyReturned>>

\* The app calls wallets.register(...args).
Register(args) ==
    LET r == register(Cur, args)
    IN /\ wallets # 0
       /\ Cardinality(unregisters) < MaxRegs
       /\ Subscriptions <= MaxOn
       /\ Observe("register", args, 0)
       /\ Commit(r.s)
       /\ unregisters' = IF r.returned THEN unregisters \cup {r.closure} ELSE unregisters
       /\ retFn' = IF r.returned THEN r.closure ELSE NoFn
       /\ ret' = 0
       /\ lastGet' = IF r.s.set # registeredWalletsSet THEN 0 ELSE lastGet
       /\ UNCHANGED <<lib, ui, env, third, win, wallets, apis, arrays, offs, hasCalled,
                      returnedApis, appReadyDispatched, loads, legacyReturned>>

\* A call of a function register() returned, the no-op or unregister; id
\* tells whether the app has noted an earlier call of it.
CallUnregister(c, id) ==
    LET s == unregister(Cur, c)
    IN /\ Subscriptions <= MaxOn
       /\ Observe(c.kind, c.newWallets, id)
       /\ Commit(s)
       /\ ret' = 0
       /\ retFn' = NoFn
       /\ lastGet' = IF c.kind = "unregister" THEN 0 ELSE lastGet
       /\ UNCHANGED <<lib, ui, env, third, win, wallets, apis, arrays,
                      returnedApis, appReadyDispatched, loads, legacyReturned>>

\* The app calls a function register() returned.
Unregister(c) ==
    /\ CallUnregister(c, 0)
    /\ UNCHANGED closures

\* The app calls a function register() returned and notes that it did.  A
\* function is modelled by the batch it closes over: when register() has
\* returned several functions closing over equal batches, the call is a
\* call of any one of them, the one noted earlier included.
UnregisterNoting(c) ==
    /\ CallUnregister(c, IF c \in hasCalled THEN 1 ELSE 0)
    /\ hasCalled' = hasCalled \cup {c}
    /\ UNCHANGED <<unregisters, offs>>

\* The app calls wallets.get().
Get ==
    LET r == get(cachedWalletsArray, registeredWalletsSet, arrays)
    IN /\ wallets # 0
       /\ Len(r.arrays) <= MaxArrays
       /\ Observe("get", <<>>, lastGet)
       /\ cachedWalletsArray' = r.cache
       /\ arrays' = r.arrays
       /\ ret' = r.ret
       /\ retFn' = NoFn
       /\ lastGet' = r.ret
       /\ fired' = <<>>
       /\ firedGets' = <<>>
       /\ steps' = <<>>
       /\ escaped' = FALSE
       /\ UNCHANGED <<lib, ui, env, third, win, wallets, apis, registeredWalletsSet, listeners, closures,
                      returnedApis, appReadyDispatched, loads, legacyReturned>>

\* The app tries to append a wallet to an array get() returned; a frozen
\* array rejects the write with a TypeError.
Tamper(i, wallet) ==
    /\ Observe("tamper", <<wallet>>, i)
    /\ arrays' = IF arrays[i].frozen THEN arrays
                 ELSE [arrays EXCEPT ![i].elems = Append(@, wallet)]
    /\ escaped' = arrays[i].frozen
    /\ fired' = <<>>
    /\ firedGets' = <<>>
    /\ steps' = <<>>
    /\ ret' = 0
    /\ retFn' = NoFn
    /\ UNCHANGED <<lib, ui, env, third, win, wallets, apis, registeredWalletsSet, cachedWalletsArray, listeners,
                   closures, lastGet, returnedApis, appReadyDispatched, loads, legacyReturned>>

\* The app calls wallets.on(event, listener).
On(event, listener) ==
    /\ wallets # 0
    /\ Subscriptions < MaxOn
    /\ Observe("on", <<event, listener>>, 0)
    /\ listeners' = on(listeners, event, listener)
    /\ offs' = offs \cup {[event |-> event, listener |-> listener]}
    /\ ret' = 0
    /\ retFn' = NoFn
    /\ fired' = <<>>
    /\ firedGets' = <<>>
    /\ steps' = <<>>
    /\ escaped' = FALSE
    /\ UNCHANGED <<lib, ui, env, third, win, wallets, apis, registeredWalletsSet, cachedWalletsArray, arrays,
                   unregisters, hasCalled, lastGet, returnedApis, appReadyDispatched, loads, legacyReturned>>

\* The app calls a function on() returned.
Off(o) ==
    /\ Observe("off", <<o.event, o.listener>>, 0)
    /\ listeners' = off(listeners, o.event, o.listener)
    /\ ret' = 0
    /\ retFn' = NoFn
    /\ fired' = <<>>
    /\ firedGets' = <<>>
    /\ steps' = <<>>
    /\ escaped' = FALSE
    /\ UNCHANGED <<lib, ui, env, third, win, wallets, apis, registeredWalletsSet, cachedWalletsArray, arrays,
                   closures, lastGet, returnedApis, appReadyDispatched, loads, legacyReturned>>

\* ---------------------------------------------------- UI registry actions
Discovery == <<env, win, third, app, closures, obs>>

\* A wallet replaces one of its own fields by a different value.
WalletChange(w, field, value) ==
    /\ changes < MaxChanges
    /\ value # walletData[w][field]
    /\ walletData' = [walletData EXCEPT ![w][field] = value]
    /\ changes' = changes + 1
    /\ uiOp' = [NoUiOp EXCEPT !.name = "change", !.wallet = w]
    /\ uiRet' = NoRet
    /\ UNCHANGED <<walletsToUiWallets, uiWallets, uiArrays, uiWalletAccounts,
                   uiWalletHandlesToWallets, handleRegs, seen, returnedUi, everRegistered>>
    /\ UNCHANGED <<Discovery, lib>>

SetAccounts(w, accounts) == WalletChange(w, "accounts", accounts)
SetChains(w, chains) == WalletChange(w, "chains", chains)
SetFeatures(w, features) == WalletChange(w, "features", features)
SetInfo(w, field, value) == WalletChange(w, field, value)

\* UI code calls getOrCreateUiWalletForStandardWallet(w); g is the outcome.
Returns(w, g) ==
    /\ uiWallets' = g.objs
    /\ uiArrays' = g.arrs
    /\ walletsToUiWallets' = g.map
    /\ uiWalletHandlesToWallets' = g.handles
    /\ uiWalletAccounts' = g.accts
    /\ uiOp' = [NoUiOp EXCEPT !.name = "getOrCreateUiWallet", !.wallet = w,
                              !.prevSeen = seen[w],
                              !.prevCached = walletsToUiWallets[w],
                              !.prevAccounts =
                                 IF walletsToUiWallets[w] = 0 THEN <<>>
                                 ELSE Elems(uiArrays, uiWallets[walletsToUiWallets[w]].accounts),
                              !.prevProjected = uiWalletAccounts,
                              !.prevReturned = {e.ref : e \in returnedUi},
                              !.prevHandles = uiWalletHandlesToWallets,
                              !.stored = g.stored,
                              !.calls = g.calls]
    /\ uiRet' = IF g.threw THEN [NoRet EXCEPT !.kind = "error", !.code = "TypeError"]
                ELSE [NoRet EXCEPT !.kind = "UiWallet", !.ref = g.ret]
    /\ seen' = [seen EXCEPT ![w] = [data |-> walletData[w], ref |-> g.ret]]
    /\ returnedUi' = IF g.threw THEN returnedUi
                     ELSE returnedUi \cup {[ref |-> g.ret, wallet |-> w]}
    /\ everRegistered' =
         IF g.stored
         THEN {e \in everRegistered : e.handle # UiWalletHandle(g.ret)}
              \cup {[handle |-> UiWalletHandle(g.ret), wallet |-> w]}
         ELSE everRegistered
    /\ UNCHANGED <<walletData, changes, handleRegs>>
    /\ UNCHANGED <<Discovery, lib>>

GetOrCreateUiWallet(w) == Returns(w, getOrCreateUiWalletForStandardWallet(w))

\* The app tries to overwrite the name of a UiWallet it was given.
TamperUiWallet(ref) ==
    /\ ref \in {e.ref : e \in returnedUi}
    /\ uiWallets' = IF uiWallets[ref].frozen THEN uiWallets
                    ELSE [uiWallets EXCEPT ![ref].name = "tampered"]
    /\ uiOp' = [NoUiOp EXCEPT !.name = "tamper"]
    /\ uiRet' = NoRet
    /\ UNCHANGED <<walletData, walletsToUiWallets, uiArrays, uiWalletAccounts,
                   uiWalletHandlesToWallets, changes, handleRegs, seen, returnedUi,
                   everRegistered>>
    /\ UNCHANGED <<Discovery, lib>>

\* A UI library calls registerWalletHandle(handle, w) itself.
RegisterWalletHandle(handle, w) ==
    /\ handleRegs < MaxHandleRegs
    /\ handleRegs' = handleRegs + 1
    /\ uiWalletHandlesToWallets' = registerWalletHandle(uiWalletHandlesToWallets, handle, w)
    /\ everRegistered' = {e \in everRegistered : e.handle # handle}
                         \cup {[handle |-> handle, wallet |-> w]}
    /\ uiOp' = [NoUiOp EXCEPT !.name = "registerWalletHandle", !.wallet = w, !.handle = handle]
    /\ uiRet' = NoRet
    /\ UNCHANGED <<walletData, walletsToUiWallets, uiWallets, uiArrays, uiWalletAccounts,
                   changes, seen, returnedUi>>
    /\ UNCHANGED <<Discovery, lib>>

\* A lookup: it only reads the registry.
LookupOf(name, handle, featureName, result) ==
    /\ uiOp' = [NoUiOp EXCEPT !.name = name, !.handle = handle,
                              !.prevHandles = uiWalletHandlesToWallets,
                              !.featureName = featureName]
    /\ uiRet' = result
    /\ UNCHANGED <<walletData, walletsToUiWallets, uiWallets, uiArrays, uiWalletAccounts,
                   uiWalletHandlesToWallets, changes, handleRegs, seen, returnedUi,
                   everRegistered>>
    /\ UNCHANGED <<Discovery, lib>>

Lookup(name, handle, result) == LookupOf(name, handle, "", result)

GetWalletForHandle(handle) ==
    Lookup("getWalletForHandle", handle, getWalletForHandle(uiWalletHandlesToWallets, handle))

GetWalletAccountForUiWalletAccount(handle) ==
    Lookup("getWalletAccountForUiWalletAccount", handle,
           getWalletAccountForUiWalletAccount(uiWalletHandlesToWallets, handle))

GetWalletFeature(handle, featureName) ==
    LookupOf("getWalletFeature", handle, featureName,
             getWalletFeature(uiWalletHandlesToWallets, walletData, handle, featureName))

\* ----------------------------------------------------- pure functions
\* A caller applies identifierArraysAreDifferent to the two arrays it holds.
Compare ==
    /\ ~compared.called
    /\ compared' = [compared EXCEPT !.called = TRUE,
                                    !.result = identifierArraysAreDifferent(compared.a, compared.b)]
    /\ UNCHANGED <<Discovery, ui, accountHeap, walletAccount>>

\* ------------------------------------------------- ReadonlyWalletAccount
\* [...array], new Uint8Array(array) and array.slice(): a new array with the
\* same elements.  Yields the heap afterwards and the new reference.
copy_alias(heap, ref) == [heap |-> heap, ref |-> ref]

copy(heap, ref) == [heap |-> Append(heap, heap[ref]), ref |-> Len(heap) + 1]

\* new ReadonlyWalletAccount(account)
Construct ==
    LET account == walletAccount.account
        publicKey == copy(accountHeap, account.publicKey)
        chains == copy(publicKey.heap, account.chains)
        features == copy(chains.heap, account.features)
    IN /\ walletAccount.op = "init"
       /\ IF Len(accountHeap[account.publicKey]) = 0 \/ Len(accountHeap[account.chains]) = 0
          THEN /\ walletAccount' = [walletAccount EXCEPT !.op = "new", !.threw = TRUE]
               /\ UNCHANGED accountHeap
          ELSE /\ accountHeap' = features.heap
               /\ walletAccount' =
                     [walletAccount EXCEPT
                         !.op = "new", !.constructed = TRUE,
                         !.private = [publicKey |-> publicKey.ref, chains |-> chains.ref,
                                      features |-> features.ref],
                         !.original = [f \in ArrayFields |-> accountHeap[account[f]]]]
       /\ UNCHANGED <<Discovery, ui, compared>>

\* get publicKey() / get chains() / get features()
Read(field) ==
    LET r == copy(accountHeap, walletAccount.private[field])
    IN /\ walletAccount.constructed
       /\ walletAccount.reads < MaxReads
       /\ accountHeap' = r.heap
       /\ walletAccount' = [walletAccount EXCEPT !.op = "get", !.field = field, !.ret = r.ref,
                                                 !.returned = @ \cup {r.ref},
                                                 !.reads = @ + 1]
       /\ UNCHANGED <<Discovery, ui, compared>>

\* The arrays code outside the class holds a reference to: those of the
\* account object it passed in and those the getters returned.
Reachable == {walletAccount.account[f] : f \in ArrayFields} \cup walletAccount.returned

\* Outside code writes array[i] = value, or pushes value when i is one past
\* the end.
Write(ref, i, value) ==
    /\ walletAccount.constructed
    /\ walletAccount.writes < MaxWrites
    /\ ref \in Reachable
    /\ i \in 1..(Len(accountHeap[ref]) + 1)
    /\ i <= Len(accountHeap[ref]) => accountHeap[ref][i] # value
    /\ accountHeap' = [accountHeap EXCEPT ![ref] =
                          IF i <= Len(@) THEN [@ EXCEPT ![i] = value] ELSE Append(@, value)]
    /\ walletAccount' = [walletAccount EXCEPT !.op = "write", !.field = "", !.ret = ref,
                                              !.writes = @ + 1]
    /\ UNCHANGED <<Discovery, ui, compared>>

\* The discovery protocol: app and wallets load in any order, in any page.
Next ==
    \/ GetWallets
    \/ DeprecatedGetWallets
    \/ \E wallet \in Wallet : RegisterWallet(wallet)
    \/ \E wallet \in Wallet : DeprecatedRegisterWallet(wallet)
    \/ \E event \in EventNames, listener \in Listener : On(event, listener)

Spec == Init /\ [][Next]_vars

\* The collection service alone (register, unregister, on, off) in a page
\* with a well-behaved window.
InitPage == Init /\ hasWindow /\ ~dispatchThrows /\ ~addThrows

NextService ==
    \/ GetWallets
    \/ \E args \in ArgLists : Register(args)
    \/ \E c \in unregisters : Unregister(c)
    \/ \E event \in EventNames, listener \in Listener : On(event, listener)
    \/ \E o \in offs : Off(o)

SpecService == InitPage /\ [][NextService]_vars

\* The functions register() and on() return, called any number of times.
NextClosures ==
    \/ GetWallets
    \/ \E args \in ArgLists : Register(args)
    \/ \E c \in unregisters : UnregisterNoting(c)
    \/ \E event \in EventNames : On(event, "n1")
    \/ \E o \in offs : Off(o)

SpecClosures == InitPage /\ [][NextClosures]_vars

\* The collection service with listeners that subscribe and unsubscribe a
\* listener while they are being notified.
NextFanOut ==
    \/ GetWallets
    \/ \E args \in ArgLists : Register(args)
    \/ \E c \in unregisters : Unregister(c)
    \/ \E event \in EventNames, listener \in {"n1"} \cup Unsubscribing \cup Subscribing :
          On(event, listener)

SpecFanOut == InitPage /\ [][NextFanOut]_vars

\* The collection service with a listener that registers a wallet of its own
\* while it is being notified.
NextReentry ==
    \/ GetWallets
    \/ \E args \in ArgLists : Register(args)
    \/ \E c \in unregisters : Unregister(c)
    \/ \E event \in EventNames, listener \in {"n1"} \cup Wrapping : On(event, listener)

SpecReentry == InitPage /\ [][NextReentry]_vars

\* The collection service with listeners that call back into it while they
\* are being notified.
NextNotify ==
    \/ GetWallets
    \/ \E args \in ArgLists : Register(args)
    \/ \E c \in unregisters : Unregister(c)
    \/ \E event \in EventNames, listener \in Listener \cup Reentrant : On(event, listener)

SpecNotify == InitPage /\ [][NextNotify]_vars

\* The discovery protocol in a page where third-party scripts listen for the
\* two events and try to stop them.
NextIntruders ==
    \/ GetWallets
    \/ \E wallet \in Wallet : RegisterWallet(wallet)
    \/ \E type \in EventTypes, method \in StopMethods : Intrude(type, method)

SpecIntruders == InitPage /\ [][NextIntruders]_vars

\* Wallets loading into any environment: no window, a window whose
\* dispatchEvent or addEventListener throws, and pages where another app
\* implementation answers register-wallet with an api whose register throws.
NextBestEffort ==
    \/ GetWallets
    \/ \E wallet \in Wallet : RegisterWallet(wallet)
    \/ Intrude("wallet-standard:register-wallet", "throwingApi")

SpecBestEffort == Init /\ [][NextBestEffort]_vars

\* The collection service in a page with a well-behaved window and in an
\* environment without a window.
InitAnywhere == Init /\ ~dispatchThrows /\ ~addThrows

NextAnywhere ==
    \/ GetWallets
    \/ \E args \in ArgLists : Register(args)
    \/ Get
    \/ \E event \in EventNames, listener \in Listener : On(event, listener)

SpecAnywhere == InitAnywhere /\ [][NextAnywhere]_vars

\* The UI-wallet cache: wallets change their fields, UI code projects them.
NextUi ==
    \/ \E w \in Wallet : GetOrCreateUiWallet(w)
    \/ \E w \in Wallet, accounts \in AccountLists : SetAccounts(w, accounts)
    \/ \E w \in Wallet, chains \in ChainLists : SetChains(w, chains)
    \/ \E w \in Wallet, features \in FeatureLists : SetFeatures(w, features)
    \/ \E w \in Wallet, field \in DOMAIN InfoValues :
          \E value \in InfoValues[field] : SetInfo(w, field, value)
    \/ \E ref \in 1..Len(uiWallets) : TamperUiWallet(ref)
    \/ \E ref \in 1..Len(uiWallets) : GetWalletForHandle(UiWalletHandle(ref))

SpecUi == InitPage /\ [][NextUi]_vars

\* The handle registry used directly, for handles of accounts.
NextHandles ==
    \/ \E w \in Wallet, accounts \in AccountLists : SetAccounts(w, accounts)
    \/ \E w \in Wallet, value \in InfoValues["name"] : SetInfo(w, "name", value)
    \/ \E handle \in AccountHandles, w \in Wallet : RegisterWalletHandle(handle, w)
    \/ \E handle \in AccountHandles : GetWalletForHandle(handle)
    \/ \E handle \in AccountHandles : GetWalletAccountForUiWalletAccount(handle)

SpecHandles == InitPage /\ [][NextHandles]_vars

\* Feature lookup through handles, while wallets change their features,
\* chains and names.
NextFeatures ==
    \/ \E w \in Wallet, features \in FeatureLists : SetFeatures(w, features)
    \/ \E w \in Wallet, chains \in ChainLists : SetChains(w, chains)
    \/ \E w \in Wallet, value \in InfoValues["name"] : SetInfo(w, "name", value)
    \/ \E handle \in AccountHandles, w \in Wallet : RegisterWalletHandle(handle, w)
    \/ \E handle \in AccountHandles, featureName \in FeatureName :
          GetWalletFeature(handle, featureName)

SpecFeatures == InitPage /\ [][NextFeatures]_vars

\* The registered set and the array cache of get().
NextCache ==
    \/ GetWallets
    \/ \E args \in ArgLists : Register(args)
    \/ \E c \in unregisters : Unregister(c)
    \/ Get
    \/ \E i \in 1..Len(arrays), wallet \in Wallet : Tamper(i, wallet)

SpecCache == InitPage /\ [][NextCache]_vars

\* identifierArraysAreDifferent applied to every pair of identifier arrays.
InitCompare ==
    /\ Loaded
    /\ hasWindow /\ ~dispatchThrows /\ ~addThrows
    /\ compared \in [a : IdArrays, b : IdArrays, called : {FALSE}, result : {FALSE}]
    /\ NoAccountCall

NextCompare == Compare

SpecCompare == InitCompare /\ [][NextCompare]_vars

\* A ReadonlyWalletAccount built from every account object, read through its
\* getters, while outside code writes to every array it can reach.
InitAccount ==
    /\ Loaded
    /\ hasWindow /\ ~dispatchThrows /\ ~addThrows
    /\ compared = NoCompare
    /\ accountHeap \in [1..3 -> AccountArrays]
    /\ walletAccount = NoAccount

NextAccount ==
    \/ Construct
    \/ \E field \in ArrayFields : Read(field)
    \/ \E ref \in 1..Len(accountHeap) :
          \E i \in 1..(Len(accountHeap[ref]) + 1), value \in Identifier : Write(ref, i, value)

SpecAccount == InitAccount /\ [][NextAccount]_vars

\* ------------------------------------------------------------ claims
Count(seq, x) == Cardinality({i \in 1..Len(seq) : seq[i] = x})

\* What wallets.get() returns in the current state.
GetElems ==
    LET r == get(cachedWalletsArray, registeredWalletsSet, arrays)
    IN r.arrays[r.ret].elems

WellBehavedWindow == hasWindow /\ ~dispatchThrows /\ ~addThrows

\* The wallets a register(...args) call started in preSet newly adds.
NewOf(args) == SelectSeq(args, LAMBDA w : ~Has(preSet, w))

\* One invocation of every subscription of the event, in order, with the batch.
OncePerSubscription(event, batch) ==
    [i \in 1..Len(preListeners[event]) |->
        [ev |-> event, l |-> preListeners[event][i], batch |-> batch]]

\* C1: wallet-first order. When the call of getWallets() that creates the
\* service returns, in a page with a well-behaved window, every wallet that
\* called registerWallet before it is in get() exactly once and was
\* delivered to each register listener at most once.
C1_WalletFirstRegistered ==
    (op.name = "getWallets" /\ op.id = 0 /\ WellBehavedWindow) =>
        \A w \in Range(appReadyListeners) :
            /\ Count(GetElems, w) = 1
            /\ \A l \in Listener :
                Cardinality({i \in 1..Len(fired) :
                    fired[i].ev = "register" /\ fired[i].l = l /\ w \in Range(fired[i].batch)}) <= 1

\* C2: app-first order. When registerWallet(W) returns after the app's
\* getWallets() attached its register-wallet listener, W is in get() exactly
\* once; if W was not registered before, every subscription of the register
\* event was invoked exactly once, with (W), inside the call; and no later
\* getWallets call registers or announces anything again.
C2_AppFirstRegistered ==
    /\ (op.name \in {"registerWallet", "DEPRECATED_registerWallet"} /\ op.id # 0 /\ WellBehavedWindow) =>
          /\ Count(GetElems, op.args[1]) = 1
          /\ ~escaped
          /\ fired = IF Has(preSet, op.args[1]) THEN <<>>
                     ELSE OncePerSubscription("register", op.args)
    /\ (op.name \in {"getWallets", "DEPRECATED_getWallets"} /\ op.id # 0) =>
          /\ fired = <<>>
          /\ registeredWalletsSet = preSet

C2_Witness ==
    /\ op.name = "registerWallet" /\ op.id # 0 /\ WellBehavedWindow
    /\ ~Has(preSet, op.args[1])
    /\ Len(preListeners["register"]) = 2
    /\ Len(fired) = 2

\* C3: a register(...) call whose arguments are all registered already leaves
\* the registered set unchanged, invokes no listener and returns a function
\* whose call leaves the set unchanged and invokes no listener either.
C3_RegistrationDedup ==
    /\ (op.name = "register" /\ \A w \in Range(op.args) : Has(preSet, w)) =>
          /\ registeredWalletsSet = preSet
          /\ fired = <<>>
          /\ ~escaped
          /\ retFn.kind = "noop"
    /\ (op.name = "noop") =>
          /\ registeredWalletsSet = preSet
          /\ fired = <<>>
          /\ ~escaped

C3_Witness ==
    /\ op.name = "register" /\ op.args # <<>>
    /\ \A w \in Range(op.args) : Has(preSet, w)
    /\ preListeners["register"] # <<>>
    /\ retFn.kind = "noop"

\* C4: the function a register(...) call returns closes over exactly the
\* wallets that call newly added; calling it removes exactly those from the
\* registered set, leaves every other wallet as it was, and invokes the
\* unregister subscriptions with exactly that batch.
C4_UnregisterScoping ==
    /\ (op.name = "register" /\ retFn.kind = "unregister") =>
          retFn.newWallets = NewOf(op.args)
    /\ (op.name = "unregister") =>
          LET batch == op.args
          IN /\ registeredWalletsSet = SelectSeq(preSet, LAMBDA w : w \notin Range(batch))
             /\ fired = OncePerSubscription("unregister", batch)

\* off = register(A, B); register(A); off()
C4_Witness ==
    /\ op.name = "unregister" /\ op.args = <<"A", "B">>
    /\ unregisters = {[kind |-> "unregister", newWallets |-> <<"A", "B">>],
                      [kind |-> "noop", newWallets |-> <<>>]}
    /\ preSet = <<"A", "B">>
    /\ registeredWalletsSet = <<>>
    /\ fired # <<>>

\* C5: a register(...) call that adds at least one wallet invokes every
\* subscription of the register event exactly once, in one pass, with the
\* whole batch of newly added wallets, and every wallet of the batch is in
\* get() when the call returns.
C5_RegisterNotifiesBatch ==
    (op.name = "register" /\ NewOf(op.args) # <<>>) =>
        /\ fired = OncePerSubscription("register", NewOf(op.args))
        /\ \A w \in Range(NewOf(op.args)) : w \in Range(GetElems)

C5_Witness ==
    /\ op.name = "register"
    /\ Len(NewOf(op.args)) = 2
    /\ NewOf(op.args)[1] # NewOf(op.args)[2]
    /\ Len(preListeners["register"]) = 2
    /\ Len(fired) = 2

\* C6: a throwing listener stops nothing. Every subscription after it is
\* still invoked with the same batch, no exception leaves register() or the
\* unregister function, the registered set is what it would be had nothing
\* thrown, and register() still returns its unregister function.
C6_ListenerFaultIsolation ==
    (op.name \in {"register", "unregister"}) =>
        LET event == op.name
            batch == IF event = "register" THEN NewOf(op.args) ELSE op.args
            ls == preListeners[event]
            acted == batch # <<>>
        IN /\ ~escaped
           /\ event = "register" => retFn.kind \in {"noop", "unregister"}
           /\ acted =>
                /\ \A i \in 1..Len(ls) : Throws(ls[i]) =>
                      \A j \in (i + 1)..Len(ls) :
                          /\ j <= Len(fired)
                          /\ fired[j] = [ev |-> event, l |-> ls[j], batch |-> batch]
                /\ event = "register" =>
                      \A w \in Wallet : Has(registeredWalletsSet, w) <=>
                                          (Has(preSet, w) \/ w \in Range(batch))
                /\ event = "unregister" =>
                      \A w \in Wallet : Has(registeredWalletsSet, w) <=>
                                          (Has(preSet, w) /\ w \notin Range(batch))

C6_Witness ==
    /\ op.name = "register" /\ NewOf(op.args) # <<>>
    /\ preListeners["register"] = <<"t1", "n1">>
    /\ Len(fired) = 2 /\ fired[2].l = "n1"
    /\ retFn.kind = "unregister"

\* C7: in every state get() returns exactly the wallets of the registered
\* set, each once; an array cached before a wallet was added or removed is
\* not what get() returns afterwards.
C7_GetCacheCoherent ==
    /\ \A w \in Wallet : Count(GetElems, w) = IF Has(registeredWalletsSet, w) THEN 1 ELSE 0
    /\ op.name = "get" => arrays[ret].elems = registeredWalletsSet

C7_Witness ==
    /\ op.name = "get"
    /\ ret = 2
    /\ arrays[1].elems # arrays[2].elems
    /\ arrays[2].elems # <<>>

\* C8: a get() call that follows another get() call with no registration or
\* unregistration in between returns the same array object; the array it
\* returns is frozen; and no step changes the contents of an array get()
\* has returned.
C8_GetStableFrozen ==
    /\ [](op.name = "get" => (arrays[ret].frozen /\ (op.id # 0 => ret = op.id)))
    /\ [][\A i \in 1..Len(arrays) : arrays'[i] = arrays[i]]_vars

C8_Witness ==
    /\ op.name = "get"
    /\ op.id # 0
    /\ ret = op.id
    /\ arrays[ret].elems # <<>>
    /\ Len(arrays) = 2

\* C9: the function on(event, listener) returns removes that listener from
\* the subscriptions of that event and leaves the other listeners of the
\* event and every subscription of the other event as they were; called
\* again it changes nothing.
C9_OffRemovesOnlyItsListener ==
    (op.name = "off") =>
        LET event == op.args[1]
            listener == op.args[2]
        IN /\ listeners[event] = SelectSeq(preListeners[event], LAMBDA l : l # listener)
           /\ \A e \in EventNames \ {event} : listeners[e] = preListeners[e]
           /\ listener \notin Range(preListeners[event]) => listeners = preListeners

C9_Witness ==
    /\ op.name = "off"
    /\ op.args = <<"register", "n1">>
    /\ preListeners = [register |-> <<"n1">>, unregister |-> <<"n1">>]
    /\ listeners = [register |-> <<>>, unregister |-> <<"n1">>]

\* C10: every getWallets() and DEPRECATED_getWallets() call returns the one
\* frozen API object, the register-wallet listener is attached at most once
\* and the app-ready event is dispatched at most once.
C10_Singleton ==
    /\ Cardinality(returnedApis) <= 1
    /\ \A a \in returnedApis : a # 0 /\ a = wallets /\ apis[a]
    /\ Len(apis) <= 1
    /\ registerWalletListeners <= 1
    /\ appReadyDispatched <= 1

C10_Witness ==
    /\ op.name = "DEPRECATED_getWallets"
    /\ op.id # 0
    /\ ret = op.id
    /\ registerWalletListeners = 1

\* C11: on both window events the three stop methods always throw and stop
\* nothing: a listener of this library attached after a third-party listener
\* that calls one of them still receives the event and its wallet is
\* registered, for register-wallet (wallet loads after the app) and for
\* app-ready (wallet loaded before the app).
C11_UnstoppableEvents ==
    /\ \A type \in EventTypes, method \in StopMethods : methodThrows(type, method)
    /\ (op.name = "registerWallet" /\ op.id # 0 /\ WellBehavedWindow
          /\ \E i \in intruders : i.type = "wallet-standard:register-wallet" /\ i.pos = 0) =>
            Has(registeredWalletsSet, op.args[1])
    /\ (op.name = "getWallets" /\ op.id = 0 /\ WellBehavedWindow) =>
            \A k \in 1..Len(appReadyListeners) :
                (\E i \in intruders : i.type = "wallet-standard:app-ready" /\ i.pos < k) =>
                    Has(registeredWalletsSet, appReadyListeners[k])

\* ------------------------------------------------------- UI registry claims
\* The last call was getOrCreateUiWalletForStandardWallet(w), it returned, and
\* w had been projected before.
Reprojected ==
    /\ uiOp.name = "getOrCreateUiWallet"
    /\ uiOp.prevSeen.ref # 0

\* C12: a second getOrCreateUiWalletForStandardWallet(w), with w's accounts,
\* chains, features, icon, name and version as they were at the previous call,
\* returns the reference the previous call returned and writes neither the
\* wallet-to-UiWallet cache nor the handle registry.
C12_Idempotence ==
    (Reprojected /\ walletData[uiOp.wallet] = uiOp.prevSeen.data) =>
        /\ uiRet.kind = "UiWallet"
        /\ uiRet.ref = uiOp.prevSeen.ref
        /\ ~uiOp.stored
        /\ walletsToUiWallets[uiOp.wallet] = uiOp.prevCached
        /\ uiWalletHandlesToWallets = uiOp.prevHandles

C12_Witness ==
    /\ Reprojected
    /\ walletData[uiOp.wallet] = uiOp.prevSeen.data
    /\ uiRet.ref = uiOp.prevSeen.ref
    /\ changes > 0

\* The changes of w between the previous projection of w and the last call.
InfoChanged ==
    LET prev == uiOp.prevSeen.data
        cur == walletData[uiOp.wallet]
    IN cur.icon # prev.icon \/ cur.name # prev.name \/ cur.version # prev.version

ChainsChanged == Range(walletData[uiOp.wallet].chains) # Range(uiOp.prevSeen.data.chains)

FeaturesChanged == Range(walletData[uiOp.wallet].features) # Range(uiOp.prevSeen.data.features)

AccountsLengthChanged == Len(walletData[uiOp.wallet].accounts) # Len(uiOp.prevSeen.data.accounts)

AccountGained ==
    \E a \in Range(walletData[uiOp.wallet].accounts) :
        getOrCreateUiWalletAccountForStandardWalletAccount(uiOp.wallet, a) \notin uiOp.prevProjected

AnyChange ==
    InfoChanged \/ ChainsChanged \/ FeaturesChanged \/ AccountsLengthChanged \/ AccountGained

\* The object and the arrays it references are frozen.
FullyFrozen(ref) ==
    /\ uiWallets[ref].frozen
    /\ \A field \in {"accounts", "features", "chains"} : uiArrays[uiWallets[ref][field]].frozen

\* C13: if since the previous call for w any of icon/name/version changed, or
\* the set of chains, or the set of feature names, or the length of the
\* account list, or the list gained an account never projected before, the
\* call returns a frozen object that no earlier call returned, and that
\* object is the cached one for w afterwards.
C13_ChangeYieldsNewInstance ==
    (Reprojected /\ AnyChange) =>
        /\ uiRet.kind = "UiWallet"
        /\ uiRet.ref \notin uiOp.prevReturned
        /\ FullyFrozen(uiRet.ref)
        /\ walletsToUiWallets[uiOp.wallet] = uiRet.ref

C13_Witness ==
    /\ Reprojected
    /\ InfoChanged
    /\ walletData[uiOp.wallet].name = uiOp.prevSeen.data.name
    /\ uiRet.ref \notin uiOp.prevReturned
    /\ walletsToUiWallets[uiOp.wallet] = uiRet.ref

\* The change checks of the call, made against the instance cached before it.
AccountsDetected ==
    \/ Len(uiOp.prevAccounts) # Len(walletData[uiOp.wallet].accounts)
    \/ \E a \in Range(walletData[uiOp.wallet].accounts) :
          getOrCreateUiWalletAccountForStandardWalletAccount(uiOp.wallet, a)
              \notin Range(uiOp.prevAccounts)

IdentifiersDetected(field) ==
    Range(Elems(uiArrays, uiWallets[uiOp.prevCached][field])) # Range(walletData[uiOp.wallet][field])

OnlyNameChanged ==
    /\ walletData[uiOp.wallet].name # uiOp.prevSeen.data.name
    /\ walletData[uiOp.wallet] = [uiOp.prevSeen.data EXCEPT !.name = walletData[uiOp.wallet].name]

SameField(field) == uiWallets[uiRet.ref][field] = uiWallets[uiOp.prevCached][field]

\* C14: when a call produces a new instance for a wallet projected before,
\* each of accounts, features and chains that was not detected as changed is
\* the same array object as in the previously cached instance; if only
\* w.name changed, all three are.
C14_StructuralSharing ==
    (Reprojected /\ uiRet.kind = "UiWallet" /\ uiRet.ref # uiOp.prevCached) =>
        /\ ~AccountsDetected => SameField("accounts")
        /\ \A field \in {"features", "chains"} : ~IdentifiersDetected(field) => SameField(field)
        /\ OnlyNameChanged => \A field \in {"accounts", "features", "chains"} : SameField(field)

C14_Witness ==
    /\ Reprojected
    /\ uiRet.kind = "UiWallet"
    /\ uiRet.ref # uiOp.prevCached
    /\ OnlyNameChanged
    /\ \A field \in {"accounts", "features", "chains"} : SameField(field)

\* A returned UiWallet that is no longer the cached instance of its wallet.
Superseded(e) == walletsToUiWallets[e.wallet] # e.ref

\* C15: a UiWallet that was returned is never modified: in every later step,
\* wallet changes, further calls and writes attempted by its holder included,
\* each of its fields and each array it references stays what it was.
C15_SnapshotImmutability ==
    [][\A e \in returnedUi :
          /\ uiWallets'[e.ref] = uiWallets[e.ref]
          /\ \A field \in {"accounts", "features", "chains"} :
                uiArrays'[uiWallets[e.ref][field]] = uiArrays[uiWallets[e.ref][field]]]_vars

C15_Witness ==
    /\ uiOp.name = "tamper"
    /\ \E e \in returnedUi :
          /\ Superseded(e)
          /\ uiWallets[e.ref].name # walletData[e.wallet].name
          /\ uiWallets[e.ref].name # "tampered"

\* The elements of a field of the UiWallet the last call returned.
Returned(field) == Range(Elems(uiArrays, uiWallets[uiRet.ref][field]))

\* C16: after every call of getOrCreateUiWalletForStandardWallet(w) the
\* returned UiWallet reflects w: its accounts are, as a set, the projections
\* of w's current accounts, its features the keys of w.features, its chains
\* w.chains, and its icon, name and version are w's.
C16_ReflectsWallet ==
    (uiOp.name = "getOrCreateUiWallet" /\ uiRet.kind = "UiWallet") =>
        LET wallet == walletData[uiOp.wallet]
        IN /\ Returned("accounts") =
                {getOrCreateUiWalletAccountForStandardWalletAccount(uiOp.wallet, a) :
                    a \in Range(wallet.accounts)}
           /\ Returned("features") = Range(wallet.features)
           /\ Returned("chains") = Range(wallet.chains)
           /\ uiWallets[uiRet.ref].icon = wallet.icon
           /\ uiWallets[uiRet.ref].name = wallet.name
           /\ uiWallets[uiRet.ref].version = wallet.version

\* b lists the same account objects as a, as often, in another order.
IsPermutation(a, b) ==
    /\ Len(a) = Len(b)
    /\ a # b
    /\ \A x \in Acct : Cardinality({i \in 1..Len(a) : a[i] = x})
                       = Cardinality({i \in 1..Len(b) : b[i] = x})

\* C17: if since the previous call w.accounts was replaced by a permutation
\* of the same account objects and nothing else of w changed, the call
\* returns the instance the previous call returned, and the accounts of that
\* instance are in the order they had before the call.
C17_ReorderingIsNoChange ==
    (/\ Reprojected
     /\ IsPermutation(uiOp.prevSeen.data.accounts, walletData[uiOp.wallet].accounts)
     /\ walletData[uiOp.wallet] =
            [uiOp.prevSeen.data EXCEPT !.accounts = walletData[uiOp.wallet].accounts]) =>
        /\ uiRet.kind = "UiWallet"
        /\ uiRet.ref = uiOp.prevSeen.ref
        /\ uiRet.ref = uiOp.prevCached
        /\ Elems(uiArrays, uiWallets[uiRet.ref].accounts) = uiOp.prevAccounts

C17_Witness ==
    /\ Reprojected
    /\ IsPermutation(uiOp.prevSeen.data.accounts, walletData[uiOp.wallet].accounts)
    /\ uiRet.ref = uiOp.prevSeen.ref
    /\ Elems(uiArrays, uiWallets[uiRet.ref].accounts) =
          [k \in 1..Len(uiOp.prevSeen.data.accounts) |->
              getOrCreateUiWalletAccountForStandardWalletAccount(uiOp.wallet,
                                                                 uiOp.prevSeen.data.accounts[k])]

\* C18: for every UiWallet u that getOrCreateUiWalletForStandardWallet(w) ever
\* returned, superseded snapshots included, getWalletForHandle(u) returns w.
C18_HandleAssociation ==
    /\ \A e \in returnedUi :
          getWalletForHandle(uiWalletHandlesToWallets, UiWalletHandle(e.ref))
              = [NoRet EXCEPT !.kind = "Wallet", !.wallet = e.wallet]
    /\ (uiOp.name = "getWalletForHandle" /\ uiOp.handle.kind = "UiWallet") =>
          \A e \in returnedUi :
              e.ref = uiOp.handle.n => uiRet.kind = "Wallet" /\ uiRet.wallet = e.wallet

C18_Witness ==
    /\ uiOp.name = "getWalletForHandle"
    /\ \E e \in returnedUi :
          /\ UiWalletHandle(e.ref) = uiOp.handle
          /\ Superseded(e)
          /\ uiRet.wallet = e.wallet

\* The wallets of the registerWalletHandle calls that count for the handle of
\* the last call: the most recent one, none if there never was a call.
LastRegistered == {e.wallet : e \in {x \in everRegistered : x.handle = uiOp.handle}}

\* C19: getWalletForHandle(h) fails with WalletNotFound exactly when h was
\* never passed to registerWalletHandle, otherwise it returns the wallet of
\* the most recent registerWalletHandle(h, .); it leaves the registry as it was.
C19_GetWalletForHandle ==
    uiOp.name = "getWalletForHandle" =>
        /\ (uiRet.kind = "error" /\ uiRet.code = "WALLET_NOT_FOUND") <=> LastRegistered = {}
        /\ \A w \in LastRegistered : uiRet.kind = "Wallet" /\ uiRet.wallet = w
        /\ uiRet.kind \in {"error", "Wallet"}
        /\ uiWalletHandlesToWallets = uiOp.prevHandles

C19_Witness ==
    /\ uiOp.name = "getWalletForHandle"
    /\ uiRet.kind = "Wallet"
    /\ uiRet.wallet \in LastRegistered
    /\ handleRegs = 2
    /\ Cardinality(everRegistered) = 1

\* The first account of a wallet with the address of the handle, as a set.
FirstWithAddress(w) ==
    LET accounts == walletData[w].accounts
    IN {accounts[k] : k \in {i \in 1..Len(accounts) :
            /\ Address[accounts[i]] = uiOp.handle.address
            /\ \A j \in 1..(i - 1) : Address[accounts[j]] # uiOp.handle.address}}

\* C20: getWalletAccountForUiWalletAccount(h) returns the first of the current
\* accounts of h's registered wallet whose address is h.address; it fails
\* with WalletAccountNotFound, carrying h.address and the wallet's name, when
\* no current account has that address, and with WalletNotFound when h has no
\* registered wallet.
C20_GetWalletAccount ==
    uiOp.name = "getWalletAccountForUiWalletAccount" =>
        /\ LastRegistered = {} => uiRet.kind = "error" /\ uiRet.code = "WALLET_NOT_FOUND"
        /\ \A w \in LastRegistered :
              /\ \A a \in FirstWithAddress(w) :
                    uiRet.kind = "WalletAccount" /\ uiRet.account = a
              /\ FirstWithAddress(w) = {} =>
                    /\ uiRet.kind = "error"
                    /\ uiRet.code = "WALLET_ACCOUNT_NOT_FOUND"
                    /\ uiRet.address = uiOp.handle.address
                    /\ uiRet.walletName = walletData[w].name

C20_Witness ==
    /\ uiOp.name = "getWalletAccountForUiWalletAccount"
    /\ uiRet.kind = "WalletAccount"
    /\ \E w \in LastRegistered :
          /\ uiRet.account \in FirstWithAddress(w)
          /\ \E k \in 2..Len(walletData[w].accounts) :
                /\ walletData[w].accounts[k] # uiRet.account
                /\ Address[walletData[w].accounts[k]] = uiOp.handle.address

\* ------------------------------------------------------ pure-function claims
\* C21: identifierArraysAreDifferent(a, b) is true exactly when the set of
\* elements of a differs from the set of elements of b; neither the order of
\* the elements nor how often one repeats affects the result.
C21_ComparesAsSets ==
    compared.called => (compared.result <=> (Range(compared.a) # Range(compared.b)))

C21_Witness ==
    /\ compared.called
    /\ compared.a = <<"c1", "c1", "c2">>
    /\ compared.b = <<"c2", "c1">>
    /\ ~compared.result

\* C22: getWalletFeature(h, featureName) fails with FeatureUnimplemented
\* whenever featureName is not a key of the features of the wallet registered
\* for h, and the error carries the requested name, that wallet's chains, its
\* feature names and its name.
C22_FeatureUnimplemented ==
    uiOp.name = "getWalletFeature" =>
        \A w \in LastRegistered :
            uiOp.featureName \notin Range(walletData[w].features) =>
                /\ uiRet.kind = "error"
                /\ uiRet.code = "FEATURE_UNIMPLEMENTED"
                /\ uiRet.featureName = uiOp.featureName
                /\ uiRet.supportedChains = walletData[w].chains
                /\ uiRet.supportedFeatures = walletData[w].features
                /\ uiRet.walletName = walletData[w].name

C22_Witness ==
    /\ uiOp.name = "getWalletFeature"
    /\ uiRet.code = "FEATURE_UNIMPLEMENTED"
    /\ uiRet.featureName = "f2"
    /\ uiRet.supportedFeatures = <<"f1">>
    /\ uiRet.supportedChains = <<"c1", "c2">>
    /\ uiRet.walletName = "n1"

\* C23: getWalletFeature(h, featureName) returns the very object the wallet
\* registered for h stores under featureName, not a copy of it, whenever
\* featureName is a key of that wallet's features.
C23_FeatureByReference ==
    uiOp.name = "getWalletFeature" =>
        \A w \in LastRegistered :
            uiOp.featureName \in Range(walletData[w].features) =>
                /\ uiRet.kind = "feature"
                /\ uiRet.feature = [wallet |-> w, name |-> uiOp.featureName, clone |-> 0]

C23_Witness ==
    /\ uiOp.name = "getWalletFeature"
    /\ uiRet.kind = "feature"
    /\ uiRet.feature.name = "f2"
    /\ \E w \in LastRegistered : walletData[w].features = <<"f1", "f2">>

\* ------------------------------------------------ discovery protocol claims
\* The legacy callbacks a call's push ran, in order (a callback is named by
\* the wallet it registers).
Invoked(st) ==
    LET ran == SelectSeq(st, LAMBDA e : e.step = "callback")
    IN [i \in 1..Len(ran) |-> ran[i].arg]

AttachAttempted ==
    /\ steps # <<>>
    /\ steps[Len(steps)] = [step |-> "addEventListener", arg |-> "wallet-standard:app-ready"]

\* C26: registerWallet(wallet) returns without throwing when there is no
\* window, when dispatchEvent throws, when addEventListener throws and when
\* the api.register it is handed throws; when the dispatch fails on a window,
\* the call still tries to attach its app-ready listener, and attaches it
\* unless addEventListener throws.
C26_BestEffortDiscovery ==
    op.name = "registerWallet" =>
        /\ ~escaped
        /\ hasWindow => AttachAttempted
        /\ (hasWindow /\ ~addThrows) =>
              /\ appReadyListeners # <<>>
              /\ appReadyListeners[Len(appReadyListeners)] = op.args[1]

C26_Witness ==
    /\ op.name = "registerWallet"
    /\ dispatchThrows
    /\ ~addThrows
    /\ ~escaped
    /\ AttachAttempted
    /\ appReadyListeners = <<"A", "B">>

\* C27: once a ReadonlyWalletAccount is built, nothing outside code does to
\* the arrays of the account object it passed in or to the arrays the
\* publicKey, chains and features getters returned changes what those getters
\* return: always the elements the account object had at construction.
C27_ImmutableFromOutside ==
    walletAccount.constructed =>
        /\ \A f \in ArrayFields :
              LET r == copy(accountHeap, walletAccount.private[f])
              IN r.heap[r.ref] = walletAccount.original[f]
        /\ walletAccount.op = "get" =>
              accountHeap[walletAccount.ret] = walletAccount.original[walletAccount.field]

C27_Witness ==
    /\ walletAccount.op = "get"
    /\ walletAccount.field = "chains"
    /\ accountHeap[walletAccount.account.chains] # walletAccount.original.chains
    /\ \E ref \in walletAccount.returned :
          /\ ref # walletAccount.ret
          /\ accountHeap[ref] # walletAccount.original.chains
          /\ accountHeap[ref] # walletAccount.original.publicKey
          /\ accountHeap[ref] # walletAccount.original.features

\* The calls of window methods among the steps of the last call, in order.
WindowCalls == SelectSeq(steps, LAMBDA e : e.step \in {"addEventListener", "dispatchEvent"})

\* C28: on a window, registerWallet dispatches register-wallet and then
\* subscribes to app-ready, and the getWallets() call that creates the
\* collection subscribes to register-wallet and then dispatches app-ready;
\* each call does each of its two steps exactly once.
C28_StepOrder ==
    /\ (op.name = "registerWallet" /\ hasWindow) =>
          WindowCalls = <<[step |-> "dispatchEvent", arg |-> "wallet-standard:register-wallet"],
                          [step |-> "addEventListener", arg |-> "wallet-standard:app-ready"]>>
    /\ (op.name = "getWallets" /\ op.id = 0 /\ hasWindow) =>
          WindowCalls = <<[step |-> "addEventListener", arg |-> "wallet-standard:register-wallet"],
                          [step |-> "dispatchEvent", arg |-> "wallet-standard:app-ready"]>>

\* ------------------------------------------------------ notification claims
\* The wallets handed to unregister listeners by the invocations in f.
Delivered(f) == UNION {Range(f[i].batch) : i \in {j \in 1..Len(f) : f[j].ev = "unregister"}}

\* C24: when register(...) is called with a wallet W among its arguments that
\* is already registered, the function it returns does not close over W, and
\* calling a function register() returned removes from the registered set and
\* delivers to unregister listeners only wallets it closes over: calling the
\* returned function never removes W and never delivers W.
C24_NoForgedUnregister ==
    /\ (op.name = "register" /\ retFn # NoFn) =>
          \A W \in Range(op.args) :
              Has(preSet, W) =>
                  /\ W \notin Range(retFn.newWallets)
                  /\ LET called == unregister(Cur, retFn)
                     IN /\ Has(registeredWalletsSet, W) => Has(called.set, W)
                        /\ W \notin Delivered(called.fired)
    /\ op.name \in {"unregister", "noop"} =>
          /\ \A W \in Range(preSet) :
                W \notin Range(op.args) => Has(registeredWalletsSet, W)
          /\ Delivered(fired) \subseteq Range(op.args)

C24_Witness ==
    /\ op.name = "register"
    /\ op.args = <<"A", "B">>
    /\ preSet = <<"A">>
    /\ retFn = [kind |-> "unregister", newWallets |-> <<"B">>]
    /\ listeners["unregister"] # <<>>
    /\ Has(unregister(Cur, retFn).set, "A")

\* The listeners of the event the last call notified, in invocation order.
\* (Invocations of other events come from listeners calling back in.)
InvokedListeners(event) ==
    LET f == SelectSeq(fired, LAMBDA e : e.ev = event)
    IN [i \in 1..Len(f) |-> f[i].l]

\* C29: by the time register(), having added a wallet, or unregister()
\* returns, the listeners of its event have been invoked, in the order in
\* which they were subscribed with on().
C29_SynchronousInOrder ==
    /\ (op.name = "register" /\ NewOf(op.args) # <<>>) =>
          InvokedListeners("register") = preListeners["register"]
    /\ op.name = "unregister" =>
          InvokedListeners("unregister") = preListeners["unregister"]

C29_Witness ==
    /\ op.name = "unregister"
    /\ preListeners["unregister"] = <<"r1", "n1">>
    /\ InvokedListeners("unregister") = <<"r1", "n1">>
    /\ Len(fired) = 2

\* Invocation i of the last call saw the registered set updated: a register
\* batch wholly in get(), an unregister batch wholly out of it.
SawUpdate(i) ==
    \A w \in Range(fired[i].batch) :
        IF fired[i].ev = "register" THEN Has(firedGets[i], w) ELSE ~Has(firedGets[i], w)

\* C30 as stated: at every listener invocation the registered set is already
\* updated for the batch, whatever listeners do, including calling register
\* or an unregister function themselves.
C30_UpdatedBeforeNotification ==
    \A i \in 1..Len(fired) : SawUpdate(i)

\* C30, amended: at a listener invocation the registered set is already
\* updated for the batch, provided no listener invoked earlier within the
\* same outermost register()/unregister() call has itself called register.
C30_UpdatedBeforeReentry ==
    \A i \in 1..Len(fired) :
        (\A j \in 1..(i - 1) : ~Reenters(fired[j].l)) => SawUpdate(i)

C30_Witness ==
    /\ op.name = "unregister"
    /\ preListeners["unregister"] = <<"n1", "r1">>
    /\ Len(fired) = 2
    /\ firedGets[2] = <<>>
    /\ registeredWalletsSet # <<>>

\* ------------------------------------------------ combined protocol claims
\* The register listeners the last call invoked with a batch holding w, in
\* invocation order.
NotifiedOf(w) ==
    LET f == SelectSeq(fired, LAMBDA e : e.ev = "register" /\ w \in Range(e.batch))
    IN [i \in 1..Len(f) |-> f[i].l]

\* The wallet is registered once and the call that registered it invoked
\* every subscription of 'register' once for it.
RegisteredOnce(w) ==
    /\ Count(GetElems, w) = 1
    /\ NotifiedOf(w) = preListeners["register"]

\* C31: in a page with a well-behaved window, whichever of registerWallet
\* and DEPRECATED_registerWallet the wallet uses, whichever of getWallets
\* and DEPRECATED_getWallets the app uses and whichever loads first, when
\* the later of the two returns the wallet is in the registered set exactly
\* once and every register listener was notified of it exactly once.
C31_Combinable ==
    WellBehavedWindow =>
        /\ (op.name \in {"getWallets", "DEPRECATED_getWallets"} /\ op.id = 0) =>
              \A w \in Range(appReadyListeners) : RegisteredOnce(w)
        /\ (op.name \in {"registerWallet", "DEPRECATED_registerWallet"} /\ op.id # 0
                /\ Count(appReadyListeners, op.args[1]) = 1) =>
              RegisteredOnce(op.args[1])

\* ------------------------------------------------ accounts iterator claims
\* The last getOrCreateUiWalletForStandardWallet call recomputed the
\* accounts group: the UiWallet it returned has another accounts array than
\* the instance cached before the call, or there was none.
AccountsRecomputed ==
    \/ uiOp.prevCached = 0
    \/ uiWallets[uiRet.ref].accounts # uiWallets[uiOp.prevCached].accounts

\* C32: one call of getOrCreateUiWalletForStandardWallet(w) hands each
\* position of w.accounts to the per-account projector at most once, the
\* existence check and the materialisation together, and when it recomputes
\* the accounts group the frozen array holds the projection of each position
\* of w.accounts, one per position, in the order of w.accounts.
C32_ProjectedOncePerPosition ==
    (uiOp.name = "getOrCreateUiWallet" /\ uiRet.kind = "UiWallet") =>
        LET accounts == walletData[uiOp.wallet].accounts
        IN /\ Range(uiOp.calls) \subseteq 1..Len(accounts)
           /\ \A k \in 1..Len(accounts) : Count(uiOp.calls, k) <= 1
           /\ AccountsRecomputed =>
                 /\ uiArrays[uiWallets[uiRet.ref].accounts].frozen
                 /\ Elems(uiArrays, uiWallets[uiRet.ref].accounts) =
                       [k \in 1..Len(accounts) |->
                           getOrCreateUiWalletAccountForStandardWalletAccount(uiOp.wallet, accounts[k])]

\* The existence check projected the first position and stopped there, and
\* the materialisation projected only the second.
C32_Witness ==
    /\ uiOp.name = "getOrCreateUiWallet"
    /\ uiRet.kind = "UiWallet"
    /\ uiOp.prevCached # 0
    /\ uiOp.prevAccounts = <<getOrCreateUiWalletAccountForStandardWalletAccount(uiOp.wallet, "a1"),
                             getOrCreateUiWalletAccountForStandardWalletAccount(uiOp.wallet, "a2")>>
    /\ walletData[uiOp.wallet].accounts = <<"a3", "a1">>
    /\ AccountsRecomputed
    /\ uiOp.calls = <<1, 2>>

\* ------------------------------------------------------ environment claims
\* C33: without a window, the getWallets() call that creates the collection
\* calls no window method, attaches no listener, dispatches no event, and
\* returns the frozen API; and register, get and on do on that API what they
\* do in a page with a window: register adds the wallets not yet registered
\* and invokes each register subscription once with them, get returns a
\* frozen array of the registered wallets, on appends the listener to the
\* subscriptions of its event.
C33_ServiceWithoutWindow ==
    /\ ~hasWindow => (registerWalletListeners = 0 /\ appReadyDispatched = 0)
    /\ (op.name = "getWallets" /\ ~hasWindow) =>
          /\ steps = <<>>
          /\ ~escaped
          /\ ret # 0 /\ ret = wallets /\ apis[ret]
    /\ op.name = "register" =>
          /\ ~escaped /\ retFn # NoFn
          /\ Range(registeredWalletsSet) = Range(preSet) \cup Range(op.args)
          /\ SubSeq(registeredWalletsSet, 1, Len(preSet)) = preSet
          /\ fired = IF NewOf(op.args) = <<>> THEN <<>>
                     ELSE OncePerSubscription("register", NewOf(op.args))
    /\ op.name = "get" =>
          /\ ~escaped
          /\ arrays[ret] = [elems |-> registeredWalletsSet, frozen |-> TRUE]
    /\ op.name = "on" =>
          /\ ~escaped
          /\ listeners[op.args[1]] = Append(preListeners[op.args[1]], op.args[2])
          /\ \A e \in EventNames \ {op.args[1]} : listeners[e] = preListeners[e]

C33_Witness ==
    /\ ~hasWindow
    /\ wallets # 0
    /\ op.name = "register"
    /\ op.args = <<"B", "A">>
    /\ preSet = <<"A">>
    /\ registeredWalletsSet = <<"A", "B">>
    /\ Len(fired) = 2
    /\ cachedWalletsArray = 0
    /\ arrays # <<>>

\* ------------------------------------------------------- closure claims
\* C34 as stated: no batch any listener is handed names a wallet twice.
C34_BatchWithoutRepeats ==
    \A i \in 1..Len(fired) : \A w \in Wallet : Count(fired[i].batch, w) <= 1

\* C34, amended: the batch handed to register listeners, and later to
\* unregister listeners, is the argument list of register(...) without the
\* wallets registered when it was called; it holds a wallet once for each
\* time the arguments name it, while the registered set holds it once.
C34_BatchIsFilteredArguments ==
    /\ \A w \in Wallet : Count(registeredWalletsSet, w) <= 1
    /\ op.name = "register" =>
          /\ \A i \in 1..Len(fired) :
                /\ fired[i].ev = "register"
                /\ fired[i].batch = NewOf(op.args)
                /\ \A w \in Wallet :
                      Count(fired[i].batch, w) = IF Has(preSet, w) THEN 0 ELSE Count(op.args, w)
          /\ retFn.kind = "unregister" => retFn.newWallets = NewOf(op.args)
    /\ op.name = "unregister" =>
          \A i \in 1..Len(fired) : fired[i].ev = "unregister" /\ fired[i].batch = op.args

C34_Witness ==
    /\ op.name = "unregister"
    /\ op.args = <<"A", "A">>
    /\ preSet = <<"B", "A">>
    /\ fired = <<[ev |-> "unregister", l |-> "n1", batch |-> <<"A", "A">>]>>
    /\ registeredWalletsSet = <<"B">>

\* C35 as stated: calling a function register() returned once more changes
\* nothing and invokes no listener, so that a listener is told of the
\* unregistration of a wallet only while the wallet is registered, that is
\* after having been told of its registration.
C35_UnregisterIdempotent ==
    /\ (op.name = "unregister" /\ op.id = 1) =>
          /\ registeredWalletsSet = preSet
          /\ fired = <<>>
    /\ op.name = "unregister" => \A w \in Delivered(fired) : Has(preSet, w)

\* C35, amended: calling a function register() returned once more invokes
\* every unregister subscription again with the batch, and removes the
\* wallets of the batch that have been registered again since; when none has
\* been, the registered set stays as it is.
C35_SecondCallNotifiesAgain ==
    (op.name = "unregister" /\ op.id = 1) =>
        /\ fired = OncePerSubscription("unregister", op.args)
        /\ registeredWalletsSet = SelectSeq(preSet, LAMBDA w : w \notin Range(op.args))
        /\ (\A w \in Range(op.args) : ~Has(preSet, w)) => registeredWalletsSet = preSet

\* A second call that finds its wallet unregistered and tells the listener
\* of the unregistration again.
C35_Witness ==
    /\ op.name = "unregister"
    /\ op.id = 1
    /\ op.args = <<"A">>
    /\ preSet = <<"B">>
    /\ registeredWalletsSet = <<"B">>
    /\ fired = <<[ev |-> "unregister", l |-> "n1", batch |-> <<"A">>]>>

\* C36 as stated: a function register() returned that has been called
\* cannot undo a later registration: called again, it leaves registered
\* every wallet of its batch that a later register call has added.
C36_StaleUnregisterHarmless ==
    (op.name = "unregister" /\ op.id = 1) =>
        \A w \in Range(op.args) : Has(preSet, w) => Has(registeredWalletsSet, w)

\* C36, amended: every call of a function register() returned removes every
\* wallet of its batch from the registered set, whichever register call
\* added the wallet most recently and however often the function has been
\* called, and removes nothing else.
C36_EveryCallRemovesItsBatch ==
    op.name = "unregister" =>
        /\ \A w \in Range(op.args) : ~Has(registeredWalletsSet, w)
        /\ \A w \in Range(preSet) : w \notin Range(op.args) => Has(registeredWalletsSet, w)

\* off1 = register(A); off1(); register(B); off2 = register(A); off1().
C36_Witness ==
    /\ op.name = "unregister"
    /\ op.id = 1
    /\ op.args = <<"A">>
    /\ preSet = <<"B", "A">>
    /\ registeredWalletsSet = <<"B">>
    /\ Cardinality(unregisters) = 2

\* C37 as stated: the function on() returned ends one subscription: of a
\* listener subscribed several times to the event, all subscriptions but one
\* stay, and the listener keeps being invoked for later events.
C37_SubscriptionsIndependent ==
    op.name = "off" =>
        Count(listeners[op.args[1]], op.args[2]) >= Count(preListeners[op.args[1]], op.args[2]) - 1

\* C37, amended: the function on(event, listener) returned ends every
\* subscription of that listener to that event, however many times it was
\* subscribed, so that later events of that type do not invoke it; its
\* subscriptions to the other event stay, and each event invokes a listener
\* once per subscription it then has.
C37_OffEndsEverySubscription ==
    /\ op.name = "off" =>
          /\ Count(listeners[op.args[1]], op.args[2]) = 0
          /\ \A e \in EventNames \ {op.args[1]} :
                Count(listeners[e], op.args[2]) = Count(preListeners[e], op.args[2])
    /\ \A e \in EventNames :
          fired # <<>> =>
              \A l \in Listener :
                  Cardinality({i \in 1..Len(fired) : fired[i].ev = e /\ fired[i].l = l})
                      = IF e = op.name THEN Count(preListeners[e], l) ELSE 0

C37_Witness ==
    /\ op.name = "off"
    /\ op.args = <<"unregister", "n1">>
    /\ preListeners["unregister"] = <<"n1", "n1">>
    /\ listeners["unregister"] = <<>>
    /\ registeredWalletsSet # <<>>

\* ------------------------------------------------------- fan-out claims
\* The last call ran the fan-out of its event.
FannedOut ==
    \/ op.name = "register" /\ NewOf(op.args) # <<>>
    \/ op.name = "unregister"

\* The listeners a fan-out over ls would invoke if a listener whose off
\* function has been called during the fan-out were passed over.
RECURSIVE PassingOver(_, _)
PassingOver(ls, offCalled) ==
    IF ls = <<>> THEN <<>>
    ELSE IF Head(ls) = "n1" /\ offCalled THEN PassingOver(Tail(ls), offCalled)
    ELSE <<Head(ls)>> \o PassingOver(Tail(ls), offCalled \/ Head(ls) \in Unsubscribing)

\* C38 as stated: a fan-out invokes the listeners subscribed when it began,
\* in order, except those whose off function an earlier listener of the
\* fan-out has called; listeners subscribed during the fan-out are not
\* invoked in it.
C38_FanOutFollowsOff ==
    FannedOut => InvokedListeners(op.name) = PassingOver(preListeners[op.name], FALSE)

\* n copies of the listener n1.
Copies(n) == [i \in 1..n |-> "n1"]

\* C38, amended: a fan-out invokes exactly the listeners subscribed when it
\* began, in order: a listener whose off function an earlier listener calls
\* during the fan-out is still invoked in it, a listener subscribed during
\* the fan-out is not.  Both changes hold from the next event on.
C38_FanOutOverSubscriptionsAtStart ==
    FannedOut =>
        LET pre == preListeners[op.name]
            offAt == {i \in 1..Len(pre) : pre[i] \in Unsubscribing}
            lastOff == IF offAt = {} THEN 0 ELSE CHOOSE i \in offAt : \A j \in offAt : j <= i
            onAfter == Cardinality({i \in (lastOff + 1)..Len(pre) : pre[i] \in Subscribing})
        IN /\ InvokedListeners(op.name) = pre
           /\ Len(fired) = Len(pre)
           /\ listeners[op.name] =
                 (IF lastOff = 0 THEN pre ELSE SelectSeq(pre, LAMBDA l : l # "n1")) \o Copies(onAfter)
           /\ \A e \in EventNames \ {op.name} : listeners[e] = preListeners[e]

C38_Witness ==
    /\ op.name = "register"
    /\ preListeners["register"] = <<"x1", "n1">>
    /\ InvokedListeners("register") = <<"x1", "n1">>
    /\ listeners["register"] = <<"x1">>

\* ----------------------------------------------------- re-entrancy claims
\* The place of a wallet in the registered set, which keeps insertion order.
PlaceOf(w) ==
    IF Has(registeredWalletsSet, w)
    THEN CHOOSE i \in 1..Len(registeredWalletsSet) : registeredWalletsSet[i] = w
    ELSE 0

\* The register batches the last call handed to the listener, in order.
RegisterBatchesOf(l) ==
    LET f == SelectSeq(fired, LAMBDA e : e.ev = "register" /\ e.l = l)
    IN [i \in 1..Len(f) |-> f[i].batch]

\* C39 as stated: every register listener is handed the batches in the order
\* in which their wallets were added to the registered set, also when a
\* listener subscribed before it registers wallets from inside its
\* notification.
C39_BatchesInAdditionOrder ==
    \A l \in {"n1"} \cup Wrapping :
        LET b == RegisterBatchesOf(l)
        IN \A i, j \in 1..Len(b) :
              (i < j /\ b[i] # b[j]) =>
                  \A w \in Range(b[i]), v \in Range(b[j]) : PlaceOf(w) < PlaceOf(v)

\* One invocation of each of the listeners ls for the register event.
OnceEach(ls, batch) == [i \in 1..Len(ls) |-> [ev |-> "register", l |-> ls[i], batch |-> batch]]

\* C39, amended: when a register listener registers a new wallet from inside
\* its notification, the nested batch is handed to every register listener
\* before the outer fan-out goes on: the listeners up to and including the
\* one that registered are handed the outer batch first, in the order of
\* addition, the listeners subscribed after it the nested batch first.
C39_NestedBatchFirst ==
    (op.name = "register" /\ NewOf(op.args) # <<>>) =>
        LET pre == preListeners["register"]
            outer == NewOf(op.args)
            at == {i \in 1..Len(pre) : pre[i] \in Wrapping}
            k == CHOOSE i \in at : \A j \in at : i <= j
        IN IF at = {} \/ Has(preSet, "B") \/ "B" \in Range(outer)
           THEN fired = OnceEach(pre, outer)
           ELSE /\ fired = OnceEach(SubSeq(pre, 1, k), outer) \o OnceEach(pre, <<"B">>)
                              \o OnceEach(SubSeq(pre, k + 1, Len(pre)), outer)
                /\ PlaceOf("B") = Len(registeredWalletsSet)
                /\ \A w \in Range(outer) : 0 < PlaceOf(w) /\ PlaceOf(w) < PlaceOf("B")

C39_Witness ==
    /\ op.name = "register"
    /\ op.args = <<"A">>
    /\ preListeners["register"] = <<"q1", "n1">>
    /\ RegisterBatchesOf("q1") = << <<"A">>, <<"B">> >>
    /\ RegisterBatchesOf("n1") = << <<"B">>, <<"A">> >>
    /\ registeredWalletsSet = <<"A", "B">>

\* ------------------------------------------------------ UiWallet cache claims
\* The last call found the cached instance to differ from the wallet in one
\* of the four groups it compares.
ChangeDetected ==
    \/ AccountsDetected
    \/ IdentifiersDetected("features")
    \/ IdentifiersDetected("chains")
    \/ shouldSyncBasicInfo(uiWallets[uiOp.prevCached], walletData[uiOp.wallet])

\* C40: at all times, whatever wallets changed and whatever was called, the
\* wallet-to-UiWallet cache holds for each wallet the instance the most
\* recent getOrCreateUiWalletForStandardWallet call for it returned, and
\* nothing for a wallet never projected; a call returns the entry the cache
\* holds when it returns; and a call replaces the entry of a wallet
\* projected before only if it detected a change in the wallet.
C40_CacheHoldsLastReturned ==
    /\ \A w \in Wallet : walletsToUiWallets[w] = seen[w].ref
    /\ (uiOp.name = "getOrCreateUiWallet") =>
          /\ uiRet.kind = "UiWallet"
          /\ uiRet.ref # 0
          /\ uiRet.ref = walletsToUiWallets[uiOp.wallet]
    /\ (Reprojected /\ walletsToUiWallets[uiOp.wallet] # uiOp.prevCached) =>
          /\ uiOp.stored
          /\ ChangeDetected

\* One wallet was projected again after a change of its chains and has a new
\* entry, the other keeps the entry of its only projection.
C40_Witness ==
    /\ Reprojected
    /\ uiOp.wallet = "A"
    /\ IdentifiersDetected("chains")
    /\ walletsToUiWallets["A"] # uiOp.prevCached
    /\ walletsToUiWallets["A"] = uiRet.ref
    /\ walletsToUiWallets["B"] # 0
    /\ walletsToUiWallets["B"] = seen["B"].ref
====
